---------------------------- MODULE Spec2Model ----------------------------
(***************************************************************************)
(* Heat-index dashboard (alab_ph): the date-window resolver of the server, *)
(* the time-series normaliser of the client and the summary aggregation of *)
(* GET /home-summary.                                                      *)
(*                                                                         *)
(* Calendar dates ("YYYY-MM-DD" strings) are records [y, m, d]; a JS Date  *)
(* is its time value in whole seconds since 1970-01-01T00:00:00Z (the only *)
(* sub-second value the code writes, the 999 ms of setHours(23,59,59,999), *)
(* never reaches a comparison or a date string and is dropped).  The local *)
(* time zone of the running process is a fixed offset tz, in hours east of *)
(* UTC.  Decimal numbers (forecasted, trend, metric values) are integers   *)
(* counting hundredths.                                                    *)
(***************************************************************************)
EXTENDS Integers, Sequences, FiniteSets, TLC

VARIABLES
    tz,         \* offset of the process's local time zone, hours east of UTC
    op,         \* the operation that produced the current outputs
    date,       \* reference date handed to the operation (or NoDate)
    range,      \* "Week" | "Month"
    window,     \* result of the window resolver
    trendData,  \* the station's rows around the reference date, as GET
                \* /station/:id/trend returns them
    series,     \* result of the normaliser
    stations,   \* rows of the summary query of GET /home-summary, in order
    avgRow,     \* the one row of the model/PAGASA averages query
    dbOk,       \* whether the queries of the request succeed
    response,    \* what the handler of GET /home-summary answers
    synopticRows, \* rows of the classification count query, as grouped
    rowsAfter,   \* the input array of the last series call, as the call left it
    db,          \* the tables of the PostgreSQL database behind getDB()
    dateTail,    \* SQL statements that follow a closing quote in the date query parameter
    posts,       \* the POST /generate-forecasts requests: position and locals of each
    redis,       \* entries of the Redis cache: key, value, seconds to live
    clock,       \* Date.now() of the server, in milliseconds since it started
    caches,      \* the QueryCache instances by name: their defaultTTL and their Map
    lastSet,     \* per instance and key, the most recent set() not followed by a delete() or clear()
    cacheCall,   \* the last call made on a QueryCache instance and what it returned
    requests    \* the requests sent through cacheMiddleware, one record each

vars == <<tz, op, date, range, window, trendData, series,
          stations, avgRow, dbOk, response,
          synopticRows,
          rowsAfter,
          db,
          dateTail,
          posts,
          redis,
          clock,
          caches,
          lastSet,
          cacheCall,
          requests>>

-----------------------------------------------------------------------------
(* Bounds of the model *)

\* the largest number of rows of the classification count query
MaxSynoptic == 3

\* number of consecutive reference dates explored, from FirstRefDate on
NumRefDays == 100

\* number of consecutive reference dates the normaliser is run on, from
\* FirstSeriesDate on, and the largest number of raw rows handed to it
NumSeriesDays == 10
MaxRows == 2

\* the largest number of stations in the summary query's result
MaxStations == 3

\* first reference date: the range crosses a year end, a leap February and
\* the start of March
FirstRefDate == [y |-> 2023, m |-> 12, d |-> 20]

\* local time zones of the process: west of UTC, UTC, Manila
TimeZones == {-5, 0, 8}

\* first reference date of the normaliser: the range crosses the end of a
\* leap February and the first days of March
FirstSeriesDate == [y |-> 2024, m |-> 2, d |-> 26]

\* days of the raw rows, counted from the reference date: the day before the
\* Week window, its first day, the eve of the reference date, that date and
\* the day after
RowOffsets == {-7, -6, -1, 0, 1}

NoDate == [y |-> 0, m |-> 0, d |-> 0]

\* date strings of the right shape that name no calendar date: "2024-13-45",
\* which no engine reads as a date, and "2024-02-30"
NotADate == [y |-> 2024, m |-> 13, d |-> 45]
DayThirtyOfFebruary == [y |-> 2024, m |-> 2, d |-> 30]

-----------------------------------------------------------------------------
(* The JS Date built-ins the code relies on *)

SecondsPerDay == 24 * 60 * 60
SecondsPerHour == 60 * 60

\* days from 1970-01-01 to the civil date (y, m, d); m may overflow 1..12 and
\* d may be any integer, as in new Date(y, monthIndex, day) and setDate(n)
DayNumber(y0, m0, d) ==
    LET y1  == y0 + ((m0 - 1) \div 12)
        m   == ((m0 - 1) % 12) + 1
        y   == IF m <= 2 THEN y1 - 1 ELSE y1
        era == y \div 400
        yoe == y - era * 400
        mp  == IF m > 2 THEN m - 3 ELSE m + 9
        doy == ((153 * mp + 2) \div 5) + d - 1
        doe == yoe * 365 + (yoe \div 4) - (yoe \div 100) + doy
    IN  era * 146097 + doe - 719468

\* the civil date of day number n
CivilOf(n) ==
    LET z   == n + 719468
        era == z \div 146097
        doe == z - era * 146097
        yoe == (doe - (doe \div 1460) + (doe \div 36524) - (doe \div 146096)) \div 365
        doy == doe - (365 * yoe + (yoe \div 4) - (yoe \div 100))
        mp  == (5 * doy + 2) \div 153
        d   == doy - ((153 * mp + 2) \div 5) + 1
        m   == IF mp < 10 THEN mp + 3 ELSE mp - 9
        y   == yoe + era * 400 + (IF m <= 2 THEN 1 ELSE 0)
    IN  [y |-> y, m |-> m, d |-> d]

\* is new Date(s) an Invalid Date (time value NaN): so for undefined and for
\* a month outside 01..12 or a day outside 01..31; a day past the end of its
\* month is accepted by the server's engine (V8) and rolls into the next
\* month, as DayNumber does
isInvalidDate(s) == ~(s.m \in 1 .. 12 /\ s.d \in 1 .. 31)

\* new Date("YYYY-MM-DD"): a date-only string is read as UTC midnight
ParseDate(s) == DayNumber(s.y, s.m, s.d) * SecondsPerDay

\* t.toISOString().split('T')[0] (or .slice(0, 10)): the UTC calendar date
ToISODate(t) == CivilOf(t \div SecondsPerDay)

\* the local wall clock of time value t, in seconds
LocalClock(t, z) == t + z * SecondsPerHour

\* getFullYear / getMonth / getDate: fields of the local calendar date
LocalCivil(t, z) == CivilOf(LocalClock(t, z) \div SecondsPerDay)
GetFullYear(t, z) == LocalCivil(t, z).y
GetMonth(t, z) == LocalCivil(t, z).m - 1
GetDate(t, z) == LocalCivil(t, z).d

\* getDay: local day of week, 0 = Sunday (1970-01-01 was a Thursday)
GetDay(t, z) == ((LocalClock(t, z) \div SecondsPerDay) + 4) % 7

\* t.setDate(n): day n of t's local month, local time of day kept
SetDate(t, z, n) ==
    LET c   == LocalCivil(t, z)
        tod == LocalClock(t, z) % SecondsPerDay
    IN  DayNumber(c.y, c.m, n) * SecondsPerDay + tod - z * SecondsPerHour

\* t.setHours(h, m, s, ms): local date kept, local time of day replaced
SetHours(t, z, h, mi, s) ==
    (LocalClock(t, z) \div SecondsPerDay) * SecondsPerDay
        + (h * 60 + mi) * 60 + s - z * SecondsPerHour

\* new Date(year, monthIndex, day): local midnight of that local date
NewLocalDate(y, monthIndex, d, z) ==
    DayNumber(y, monthIndex + 1, d) * SecondsPerDay - z * SecondsPerHour

\* the calendar date k days after date s
AddDays(s, k) == CivilOf(DayNumber(s.y, s.m, s.d) + k)

RefDates == { AddDays(FirstRefDate, k) : k \in 0 .. (NumRefDays - 1) }


Ranges == {"Week", "Month", "Other"}

-----------------------------------------------------------------------------
(* Values shared by the handlers *)

\* a cell of a result row: <<v>> for the number v, <<>> for null or undefined
NullValue == <<>>

\* cell ?? 0
OrZero(cell) == IF cell = NullValue THEN 0 ELSE cell[1]

NoAvgRow == [avg_model_forecasted |-> NullValue, avg_pagasa_forecasted |-> NullValue]

NoResponse == [status |-> 0]

-----------------------------------------------------------------------------
(* Date-window resolver (server) *)

NoWindow == [kind |-> "none", startDate |-> NoDate, endDate |-> NoDate, days |-> 0]

\* no QueryCache instance exists
NoCaches == <<>>

\* no call was made on a QueryCache instance
NoCall == [method |-> "none", at |-> 0]

\* the database before any table is looked at: the five tables of the
\* schema the routes name, each a set of rows, the serial of the id column
\* of model_heat_index, and whether the schema, which the repository does not
\* hold, declares (station, date) unique in model_heat_index
NoTables ==
    [stations |-> {}, heat_index |-> {}, model_heat_index |-> {},
     model_metrics |-> {}, classification |-> {}, nextId |-> 1, unique |-> FALSE]

\* no condition is returned: toISOString() of an Invalid Date throws RangeError
RangeErrorThrown == [kind |-> "RangeError", startDate |-> NoDate, endDate |-> NoDate, days |-> 0]

\* the SQL condition date >= 'startDate' AND date <= 'endDate'
Between(s, e) == [kind |-> "range", startDate |-> s, endDate |-> e, days |-> 0]

\* the SQL condition date >= CURRENT_DATE - INTERVAL 'n days'
LastDays(n) == [kind |-> "interval", startDate |-> NoDate, endDate |-> NoDate, days |-> n]

\* the Month branch: new Date(y, m, 1) and new Date(y, m + 1, 0) of the
\* selected date's local year and month, printed as UTC dates
monthCondition(z, d) ==
    LET selectedDate == ParseDate(d)
        startOfMonth == NewLocalDate(GetFullYear(selectedDate, z), GetMonth(selectedDate, z), 1, z)
        endOfMonth   == NewLocalDate(GetFullYear(selectedDate, z), GetMonth(selectedDate, z) + 1, 0, z)
    IN  IF isInvalidDate(d) THEN RangeErrorThrown
        ELSE Between(ToISODate(startOfMonth), ToISODate(endOfMonth))

\* getISOWeekRange, rolling draft: six days before the selected date up to it
getISOWeekRange(z, d) ==
    LET dt          == ParseDate(d)
        startOfWeek == SetDate(dt, z, GetDate(dt, z) - 6)
        endOfWeek   == dt
    IN  IF isInvalidDate(d) THEN RangeErrorThrown
        ELSE Between(ToISODate(startOfWeek), ToISODate(endOfWeek))

\* getISOWeekRange, calendar draft: Monday to Sunday of the selected date's week
getISOWeekRangeMonday(z, d) ==
    LET dt           == ParseDate(d)
        dayOfWeek    == GetDay(dt, z)
        daysToMonday == IF dayOfWeek = 0 THEN 6 ELSE dayOfWeek - 1
        startOfWeek  == SetDate(dt, z, GetDate(dt, z) - daysToMonday)
        endOfWeek    == SetDate(startOfWeek, z, GetDate(startOfWeek, z) + 6)
    IN  IF isInvalidDate(d) THEN RangeErrorThrown
        ELSE Between(ToISODate(startOfWeek), ToISODate(endOfWeek))

\* the rolling branch of getDateRangeCondition
rollingCondition(z, d) ==
    LET selectedDate == ParseDate(d)
        end          == SetHours(selectedDate, z, 23, 59, 59)
        start        == SetHours(SetDate(selectedDate, z, GetDate(selectedDate, z) - 6), z, 0, 0, 0)
    IN  IF isInvalidDate(d) THEN RangeErrorThrown
        ELSE Between(ToISODate(start), ToISODate(end))

\* getDateRangeCondition(date, range), the draft with its own rolling window
getDateRangeCondition(z, d, r) ==
    IF d = NoDate
    THEN LastDays(IF r = "Month" THEN 31 ELSE 7)
    ELSE IF r = "Month" THEN monthCondition(z, d)
    ELSE rollingCondition(z, d)

\* the date condition of GET /nationwide-trend (inline Month branch, calendar
\* week otherwise)
nationwideTrendCondition(z, d, r) ==
    IF d = NoDate
    THEN LastDays(IF r = "Month" THEN 31 ELSE 7)
    ELSE IF r = "Month" THEN monthCondition(z, d)
    ELSE getISOWeekRangeMonday(z, d)

-----------------------------------------------------------------------------
(* Specification of the window resolver: the process starts in some time   *)
(* zone, then serves any number of calls.                                  *)

InitWindow ==
    /\ tz \in TimeZones
    /\ op = "init"
    /\ date = NoDate
    /\ range = "Week"
    /\ window = NoWindow
    /\ trendData = <<>>
    /\ series = <<>>
    /\ stations = <<>>
    /\ avgRow = NoAvgRow
    /\ dbOk = TRUE
    /\ response = NoResponse
    /\ synopticRows = <<>>
    /\ rowsAfter = <<>>
    /\ db = NoTables
    /\ dateTail = <<>>
    /\ posts = <<>>
    /\ redis = {}
    /\ clock = 0
    /\ caches = NoCaches
    /\ lastSet = NoCaches
    /\ cacheCall = NoCall
    /\ requests = <<>>

CallGetDateRangeCondition ==
    \E d \in RefDates \cup {NoDate, NotADate, DayThirtyOfFebruary}, r \in Ranges :
        /\ op' = "getDateRangeCondition"
        /\ date' = d
        /\ range' = r
        /\ window' = getDateRangeCondition(tz, d, r)
        /\ UNCHANGED <<tz, trendData, series, stations, avgRow, dbOk, response,
                 synopticRows,
                 rowsAfter,
                 db,
                 dateTail,
                 posts,
                 redis,
                 clock,
                 caches,
                 lastSet,
                 cacheCall,
                 requests>>

CallGetISOWeekRange ==
    \E d \in RefDates :
        /\ op' = "getISOWeekRange"
        /\ date' = d
        /\ range' = "Week"
        /\ window' = getISOWeekRange(tz, d)
        /\ UNCHANGED <<tz, trendData, series, stations, avgRow, dbOk, response,
                 synopticRows,
                 rowsAfter,
                 db,
                 dateTail,
                 posts,
                 redis,
                 clock,
                 caches,
                 lastSet,
                 cacheCall,
                 requests>>

CallNationwideTrend ==
    \E d \in RefDates \cup {NoDate}, r \in Ranges :
        /\ op' = "nationwideTrend"
        /\ date' = d
        /\ range' = r
        /\ window' = nationwideTrendCondition(tz, d, r)
        /\ UNCHANGED <<tz, trendData, series, stations, avgRow, dbOk, response,
                 synopticRows,
                 rowsAfter,
                 db,
                 dateTail,
                 posts,
                 redis,
                 clock,
                 caches,
                 lastSet,
                 cacheCall,
                 requests>>

NextWindow ==
    \/ CallGetDateRangeCondition
    \/ CallGetISOWeekRange
    \/ CallNationwideTrend

Spec == InitWindow /\ [][NextWindow]_vars

-----------------------------------------------------------------------------
(* Claims on the window resolver *)

IsLeapYear(y) == (y % 4 = 0 /\ y % 100 # 0) \/ y % 400 = 0

MonthLength(y, m) ==
    IF m = 2 THEN (IF IsLeapYear(y) THEN 29 ELSE 28)
    ELSE IF m \in {4, 6, 9, 11} THEN 30 ELSE 31

\* C1: for every reference date d and every time zone of the process, the
\* Week window computed for d by getDateRangeCondition or getISOWeekRange is
\* exactly the seven days d-6 .. d.
C1_WeekWindowEndsAtReference ==
    (/\ op \in {"getDateRangeCondition", "getISOWeekRange"}
     /\ date \in RefDates
     /\ range # "Month")
        => window = Between(AddDays(date, -6), date)

\* C2: for every reference date d and every time zone of the process, the
\* Month window computed for d runs from the first to the last day of d's
\* own month, with the right month length.
C2_MonthWindowIsOwnMonth ==
    (/\ op \in {"getDateRangeCondition", "nationwideTrend"}
     /\ date \in RefDates
     /\ range = "Month")
        => window = Between([y |-> date.y, m |-> date.m, d |-> 1],
                            [y |-> date.y, m |-> date.m, d |-> MonthLength(date.y, date.m)])


-----------------------------------------------------------------------------
(* Time-series normaliser (client): getTrendSeries *)

\* the metric keys the station page asks for
Keys == {"temp", "model_forecasted"}

\* a metric cell of a raw row is <<v>> for the number v and NullValue for
\* null, undefined or a key the row lacks
NoRow == [date |-> NoDate, vals |-> [k \in Keys |-> NullValue]]

\* entry[key] = 0 for every key
ZeroEntry(ds) == [date |-> ds, vals |-> [k \in Keys |-> 0]]

\* entry[key] = d[key] ?? 0 for every key
CopyEntry(ds, d) == [date |-> ds, vals |-> [k \in Keys |-> OrZero(d.vals[k])]]

\* selected = new Date(selectedDate); selected.setHours(0, 0, 0, 0)
selectedMidnight(z, selectedDate) == SetHours(ParseDate(selectedDate), z, 0, 0, 0)

\* a comparison that also holds on the selected date itself
onOrAfterSelected(z, ds, selected) == SetHours(ParseDate(ds), z, 0, 0, 0) >= selected

\* dDate.getTime() > selected.getTime(), dDate the local midnight of date ds
afterSelected(z, ds, selected) == SetHours(ParseDate(ds), z, 0, 0, 0) > selected

\* dataMap.get(dateStr) of new Map(trendData.map(d => [key(d.date), d])): the
\* last row filed under that key, NoRow when there is none
dataMapGet(rows, dateStr) ==
    LET hits == { i \in 1 .. Len(rows) : ToISODate(ParseDate(rows[i].date)) = dateStr }
    IN  IF hits = {} THEN NoRow
        ELSE rows[CHOOSE i \in hits : \A j \in hits : j <= i]

\* current after i rounds of current.setDate(current.getDate() + 1): a day
\* number past the end of the month rolls into the next month, so i rounds
\* of one day land where one setDate of i days lands
currentAt(z, start, i) == SetDate(start, z, GetDate(start, z) + i)

\* one round of the Week loop: the entry pushed for the date under current
weekEntry(z, selected, rows, current) ==
    LET dateStr == ToISODate(current)
        d       == dataMapGet(rows, dateStr)
    IN  IF d # NoRow
        THEN IF afterSelected(z, dateStr, selected) THEN ZeroEntry(dateStr)
             ELSE CopyEntry(dateStr, d)
        ELSE ZeroEntry(dateStr)

\* the Week branch: seven rounds starting six days before selected
weekSeries(z, selected, rows) ==
    LET start == SetDate(selected, z, GetDate(selected, z) - 6)
    IN  [i \in 1 .. 7 |-> weekEntry(z, selected, rows, currentAt(z, start, i - 1))]

\* trendData.filter(...) of the Month branch: rows of selected's local month
RECURSIVE monthFilter(_, _, _)
monthFilter(z, selected, rows) ==
    IF rows = <<>> THEN <<>>
    ELSE LET dDate == ParseDate(Head(rows).date)
             keep  == /\ GetFullYear(dDate, z) = GetFullYear(selected, z)
                      /\ GetMonth(dDate, z) = GetMonth(selected, z)
         IN  (IF keep THEN <<Head(rows)>> ELSE <<>>)
                 \o monthFilter(z, selected, Tail(rows))

\* the entry mapped from a raw row: zeroed after the selected date
rowEntry(z, selected, d) ==
    IF afterSelected(z, d.date, selected) THEN ZeroEntry(d.date)
    ELSE CopyEntry(d.date, d)

\* nothing is returned: current.toISOString() of the Week loop throws
\* RangeError when selected is an Invalid Date
SeriesRangeError == <<[error |-> "RangeError"]>>

\* the rolling draft when selected is an Invalid Date: the Week loop throws in
\* its first round; the Month filter keeps no row, since getFullYear() of a
\* row never equals NaN
seriesOfInvalidSelected(period) ==
    IF period = "Week" THEN SeriesRangeError ELSE <<>>

\* getTrendSeries without its early return on an empty trendData
getTrendSeriesUnguarded(z, selectedDate, period, rows) ==
    LET selected == selectedMidnight(z, selectedDate)
    IN  IF isInvalidDate(selectedDate) THEN seriesOfInvalidSelected(period)
        ELSE IF period = "Week" THEN weekSeries(z, selected, rows)
        ELSE IF period = "Month"
        THEN LET filtered == monthFilter(z, selected, rows)
             IN  [i \in 1 .. Len(filtered) |-> rowEntry(z, selected, filtered[i])]
        ELSE <<>>

\* getTrendSeries(selectedDate, period, trendData, keys), rolling draft
getTrendSeries(z, selectedDate, period, rows) ==
    LET selected == selectedMidnight(z, selectedDate)
    IN  IF rows = <<>> THEN <<>>
        ELSE IF isInvalidDate(selectedDate) THEN seriesOfInvalidSelected(period)
        ELSE IF period = "Week" THEN weekSeries(z, selected, rows)
        ELSE IF period = "Month"
        THEN LET filtered == monthFilter(z, selected, rows)
             IN  [i \in 1 .. Len(filtered) |-> rowEntry(z, selected, filtered[i])]
        ELSE <<>>

\* the entry the backend-filtered draft maps from a raw row: it also carries
\* the local day of month
dayEntry(z, selected, d) ==
    LET e == rowEntry(z, selected, d)
    IN  [day |-> GetDate(SetHours(ParseDate(d.date), z, 0, 0, 0), z),
         date |-> e.date, vals |-> e.vals]

\* the entry mapped from a raw row when selected is an Invalid Date: no time
\* is greater than NaN, so every row is copied
copiedEntry(z, d) ==
    [day |-> GetDate(SetHours(ParseDate(d.date), z, 0, 0, 0), z),
     date |-> d.date, vals |-> CopyEntry(d.date, d).vals]

\* the filter of the "exclude March 1" rule: is item dated March 1 of the
\* selected year, read in local time
isMarchFirst(z, selected, item) ==
    LET itemDate == ParseDate(item.date)
    IN  /\ GetDate(itemDate, z) = 1
        /\ GetMonth(itemDate, z) = 2
        /\ GetFullYear(itemDate, z) = GetFullYear(selected, z)

\* getTrendSeries, the draft that trusts the backend's window: every row is
\* mapped, then March 1 is dropped when the selected date is in March
getTrendSeriesBackendFiltered(z, selectedDate, period, rows) ==
    LET selected == selectedMidnight(z, selectedDate)
        result   == [i \in 1 .. Len(rows) |-> dayEntry(z, selected, rows[i])]
        keep(item) == ~isMarchFirst(z, selected, item)
    IN  IF rows = <<>> THEN <<>>
        ELSE IF isInvalidDate(selectedDate)
        THEN [i \in 1 .. Len(rows) |-> copiedEntry(z, rows[i])]
        ELSE IF GetMonth(selected, z) = 2 THEN SelectSeq(result, keep)
        ELSE result

-----------------------------------------------------------------------------
(* Forecast-error series: the query of GET /station/:id/forecast-error and *)
(* getForecastErrorSeries of the client                                     *)

ErrorKeys == {"t_plus_one", "t_plus_two"}

\* the error columns of the station's row dated ds, in hundredths: nonzero
\* numbers that tell the rows and the two columns apart
AbsError(ds, k) == (IF k = "t_plus_one" THEN 0 ELSE 1000) + 100 * ds.m + ds.d

\* does the SQL date condition w select a row dated ds
inDateCondition(w, ds) ==
    /\ w.kind = "range"
    /\ DayNumber(w.startDate.y, w.startDate.m, w.startDate.d) <= DayNumber(ds.y, ds.m, ds.d)
    /\ DayNumber(ds.y, ds.m, ds.d) <= DayNumber(w.endDate.y, w.endDate.m, w.endDate.d)

\* SELECT EXTRACT(DAY FROM date)::integer AS day, COALESCE(..., 0) AS
\* t_plus_one, COALESCE(..., 0) AS t_plus_two
errorRowOf(ds) == [day |-> ds.d, vals |-> [k \in ErrorKeys |-> AbsError(ds, k)]]

\* the rows the forecast-error query returns under date condition w, from
\* the station's rows dated as rows, ascending
RECURSIVE forecastErrorRows(_, _)
forecastErrorRows(w, rows) ==
    IF rows = <<>> THEN <<>>
    ELSE (IF inDateCondition(w, Head(rows).date)
          THEN <<errorRowOf(Head(rows).date)>> ELSE <<>>)
             \o forecastErrorRows(w, Tail(rows))

NoErrorRow == [day |-> 0, vals |-> [k \in ErrorKeys |-> 0]]

\* dDate of a row identified by a day number: new Date(selected),
\* setDate(d.day), setHours(0, 0, 0, 0)
dayNumberDate(z, selected, day) == SetHours(SetDate(selected, z, day), z, 0, 0, 0)

\* { ...d } with every numeric field but day set to 0
zeroedError(d) == [day |-> d.day, vals |-> [k \in DOMAIN d.vals |-> 0]]

\* dataMap.get(dateStr) of the rolling draft: the last row whose dDate prints
\* as dateStr, NoErrorRow when there is none
errorMapGet(z, selected, errorData, dateStr) ==
    LET hits == { i \in 1 .. Len(errorData) :
                    ToISODate(dayNumberDate(z, selected, errorData[i].day)) = dateStr }
    IN  IF hits = {} THEN NoErrorRow
        ELSE errorData[CHOOSE i \in hits : \A j \in hits : j <= i]

\* the place in errorData of the row dataMap.get(dateStr) returns, 0 for none
errorMapIndex(z, selected, errorData, dateStr) ==
    LET hits == { i \in 1 .. Len(errorData) :
                    ToISODate(dayNumberDate(z, selected, errorData[i].day)) = dateStr }
    IN  IF hits = {} THEN 0
        ELSE CHOOSE i \in hits : \A j \in hits : j <= i

\* one round of the loop of the rolling draft: the entry pushed for current
errorWindowEntry(z, selected, errorData, current) ==
    LET data        == errorMapGet(z, selected, errorData, ToISODate(current))
        currentDate == SetHours(current, z, 0, 0, 0)
        numericKeys == IF errorData = <<>> THEN {} ELSE DOMAIN errorData[1].vals
    IN  IF data # NoErrorRow
        THEN IF currentDate > selected THEN zeroedError(data) ELSE data
        ELSE [day |-> GetDate(current, z), vals |-> [k \in numericKeys |-> 0]]

\* getForecastErrorSeries(selectedDate, errorData), rolling draft: seven
\* entries starting six days before selected
getForecastErrorSeries(z, selectedDate, errorData) ==
    LET selected  == selectedMidnight(z, selectedDate)
        startDate == SetDate(selected, z, GetDate(selected, z) - 6)
    IN  [i \in 1 .. 7 |->
            errorWindowEntry(z, selected, errorData, currentAt(z, startDate, i - 1))]

\* the entry the backend-filtered draft maps from a row: zeroed when its
\* dDate is after selected
errorEntry(z, selected, d) ==
    IF dayNumberDate(z, selected, d.day) > selected THEN zeroedError(d) ELSE d

\* the filter of the "exclude March 1" rule for a row identified by a day
\* number
isMarchFirstDay(z, selected, item) ==
    LET itemDate == SetDate(selected, z, item.day)
    IN  /\ GetDate(itemDate, z) = 1
        /\ GetMonth(itemDate, z) = 2
        /\ GetFullYear(itemDate, z) = GetFullYear(selected, z)

\* getForecastErrorSeries, the draft that trusts the backend's window
getForecastErrorSeriesBackendFiltered(z, selectedDate, errorData) ==
    LET selected   == selectedMidnight(z, selectedDate)
        result     == [i \in 1 .. Len(errorData) |-> errorEntry(z, selected, errorData[i])]
        keep(item) == ~isMarchFirstDay(z, selected, item)
    IN  IF GetMonth(selected, z) = 2 THEN SelectSeq(result, keep)
        ELSE result

-----------------------------------------------------------------------------
(* The objects a series call touches.  The n rows of the input array are    *)
(* objects 1 .. n; an object the call creates gets the next number.  A call *)
(* leaves the input array as the objects 1 .. n stand when it returns (no   *)
(* draft pushes to, sorts or splices the input array itself).               *)

\* a new object under number id with the given fields
newObject(heap, id, fields) ==
    IF id = Len(heap) + 1 THEN Append(heap, fields) ELSE [heap EXCEPT ![id] = fields]

\* const zeroed = d: the row itself, not a copy
sameObject(d, fresh) == d

\* const zeroed = { ...d }: zeroed names the new object, not row d
spreadObject(d, fresh) == fresh

\* zeroed[key] = 0 for every numeric key but day, on the object under id
zeroObject(heap, id) == [heap EXCEPT ![id] = zeroedError(@)]

\* the objects after the map callback of the backend-filtered draft of
\* getForecastErrorSeries ran on row d
errorEntryObjects(z, selected, heap, d, fresh) ==
    IF dayNumberDate(z, selected, heap[d].day) > selected
    THEN zeroObject(newObject(heap, fresh, heap[d]), spreadObject(d, fresh))
    ELSE heap

\* the objects after errorData.map(...) ran on rows i .. n
RECURSIVE errorMapObjects(_, _, _, _, _)
errorMapObjects(z, selected, heap, i, n) ==
    IF i > n THEN heap
    ELSE errorMapObjects(z, selected,
                         errorEntryObjects(z, selected, heap, i, Len(heap) + 1), i + 1, n)

\* errorData as the backend-filtered draft of getForecastErrorSeries leaves it
errorDataAfterBackendFiltered(z, selectedDate, errorData) ==
    LET heap == errorMapObjects(z, selectedMidnight(z, selectedDate), errorData,
                                1, Len(errorData))
    IN  [i \in 1 .. Len(errorData) |-> heap[i]]

\* the objects after one round of the loop of the rolling draft: a zeroed
\* copy of the row found, the row itself, or a new empty entry is pushed
errorWindowObjects(z, selected, errorData, heap, current, fresh) ==
    LET d == errorMapIndex(z, selected, errorData, ToISODate(current))
    IN  IF d # 0
        THEN IF SetHours(current, z, 0, 0, 0) > selected
             THEN zeroObject(newObject(heap, fresh, heap[d]), spreadObject(d, fresh))
             ELSE heap
        ELSE newObject(heap, fresh, errorWindowEntry(z, selected, errorData, current))

\* the objects after rounds i .. 7 of the loop
RECURSIVE errorLoopObjects(_, _, _, _, _, _)
errorLoopObjects(z, selected, errorData, heap, startDate, i) ==
    IF i > 7 THEN heap
    ELSE errorLoopObjects(z, selected, errorData,
             errorWindowObjects(z, selected, errorData, heap,
                                currentAt(z, startDate, i - 1), Len(heap) + 1),
             startDate, i + 1)

\* errorData as the rolling draft of getForecastErrorSeries leaves it
errorDataAfter(z, selectedDate, errorData) ==
    LET selected  == selectedMidnight(z, selectedDate)
        startDate == SetDate(selected, z, GetDate(selected, z) - 6)
        heap      == errorLoopObjects(z, selected, errorData, errorData, startDate, 1)
    IN  [i \in 1 .. Len(errorData) |-> heap[i]]

\* the objects after the entries of a trend series were built: each entry is
\* a new object ({ date: ... }) and entry[key] = ... writes to it alone
RECURSIVE entryObjects(_, _, _, _)
entryObjects(heap, entries, i, n) ==
    IF i > Len(entries) THEN heap
    ELSE entryObjects(newObject(heap, Len(heap) + 1, entries[i]), entries, i + 1, n)

\* trendData as getTrendSeries (either draft) leaves it, entries being the
\* series it built
trendDataAfter(rows, entries) ==
    LET heap == entryObjects(rows, entries, 1, Len(rows))
    IN  [i \in 1 .. Len(rows) |-> heap[i]]

-----------------------------------------------------------------------------
(* Specification of the normaliser: the page holds a selected date, a       *)
(* period and the rows the backend returned (one row per day, ascending),   *)
(* and renders them once.                                                   *)

SeriesDates == { AddDays(FirstSeriesDate, k) : k \in 0 .. (NumSeriesDays - 1) }

\* what a raw row may hold under the two keys: numbers that tell the rows
\* apart, a null, a zero
RowValue(ds, k) == IF k = "temp" THEN <<30 + ds.d>> ELSE <<60 + ds.d>>
CellChoices == {"numbers", "null temp", "zero temp"}
MkRow(ds, c) ==
    [date |-> ds,
     vals |-> [k \in Keys |->
                 IF c = "null temp" /\ k = "temp" THEN NullValue
                 ELSE IF c = "zero temp" /\ k = "temp" THEN <<0>>
                 ELSE IF c = "zero temp" THEN NullValue
                 ELSE RowValue(ds, k)]]

\* ascending lists of at most MaxRows row offsets
OffsetLists ==
    { s \in UNION { [1 .. n -> RowOffsets] : n \in 0 .. MaxRows } :
        \A i \in 1 .. (Len(s) - 1) : s[i] < s[i + 1] }

TrendInputs(sel) ==
    UNION { { [i \in 1 .. Len(s) |-> MkRow(AddDays(sel, s[i]), c[i])] :
                c \in [1 .. Len(s) -> CellChoices] } : s \in OffsetLists }

InitSeries ==
    /\ tz \in TimeZones
    /\ op = "init"
    /\ date \in SeriesDates
    /\ range \in {"Week", "Month"}
    /\ window = NoWindow
    /\ trendData \in TrendInputs(date)
    /\ series = <<>>
    /\ stations = <<>>
    /\ avgRow = NoAvgRow
    /\ dbOk = TRUE
    /\ response = NoResponse
    /\ synopticRows = <<>>
    /\ rowsAfter = <<>>
    /\ db = NoTables
    /\ dateTail = <<>>
    /\ posts = <<>>
    /\ redis = {}
    /\ clock = 0
    /\ caches = NoCaches
    /\ lastSet = NoCaches
    /\ cacheCall = NoCall
    /\ requests = <<>>

CallGetTrendSeries ==
    /\ op = "init"
    /\ op' = "getTrendSeries"
    /\ series' = getTrendSeries(tz, date, range, trendData)
    /\ rowsAfter' = trendDataAfter(trendData, getTrendSeries(tz, date, range, trendData))
    /\ UNCHANGED <<tz, date, range, window, trendData, stations, avgRow, dbOk, response,
                 synopticRows,
                 db,
                 dateTail,
                 posts,
                 redis,
                 clock,
                 caches,
                 lastSet,
                 cacheCall,
                 requests>>

CallGetTrendSeriesBackendFiltered ==
    /\ op = "init"
    /\ op' = "getTrendSeriesBackendFiltered"
    /\ series' = getTrendSeriesBackendFiltered(tz, date, range, trendData)
    /\ rowsAfter' = trendDataAfter(trendData,
                                   getTrendSeriesBackendFiltered(tz, date, range, trendData))
    /\ UNCHANGED <<tz, date, range, window, trendData, stations, avgRow, dbOk, response,
                 synopticRows,
                 db,
                 dateTail,
                 posts,
                 redis,
                 clock,
                 caches,
                 lastSet,
                 cacheCall,
                 requests>>

\* the station page fetches /forecast-error for its date and period from a
\* server in some time zone and charts getForecastErrorSeries of the answer
CallGetForecastErrorSeries ==
    /\ op = "init"
    /\ op' = "getForecastErrorSeries"
    /\ \E serverZone \in TimeZones :
          LET dateCondition == getDateRangeCondition(serverZone, date, range)
          IN  /\ window' = dateCondition
              /\ series' = getForecastErrorSeries(tz, date,
                                forecastErrorRows(dateCondition, trendData))
              /\ rowsAfter' = errorDataAfter(tz, date,
                                forecastErrorRows(dateCondition, trendData))
    /\ UNCHANGED <<tz, date, range, trendData, stations, avgRow, dbOk, response,
                 synopticRows,
                 db,
                 dateTail,
                 posts,
                 redis,
                 clock,
                 caches,
                 lastSet,
                 cacheCall,
                 requests>>

CallGetForecastErrorSeriesBackendFiltered ==
    /\ op = "init"
    /\ op' = "getForecastErrorSeriesBackendFiltered"
    /\ \E serverZone \in TimeZones :
          LET dateCondition == getDateRangeCondition(serverZone, date, range)
          IN  /\ window' = dateCondition
              /\ series' = getForecastErrorSeriesBackendFiltered(tz, date,
                                forecastErrorRows(dateCondition, trendData))
              /\ rowsAfter' = errorDataAfterBackendFiltered(tz, date,
                                forecastErrorRows(dateCondition, trendData))
    /\ UNCHANGED <<tz, date, range, trendData, stations, avgRow, dbOk, response,
                 synopticRows,
                 db,
                 dateTail,
                 posts,
                 redis,
                 clock,
                 caches,
                 lastSet,
                 cacheCall,
                 requests>>

NextSeries ==
    \/ CallGetTrendSeries
    \/ CallGetTrendSeriesBackendFiltered
    \/ CallGetForecastErrorSeries
    \/ CallGetForecastErrorSeriesBackendFiltered

SpecSeries == InitSeries /\ [][NextSeries]_vars

-----------------------------------------------------------------------------
(* Claims on the normaliser *)

SeriesOps == {"getTrendSeries", "getTrendSeriesBackendFiltered"}

ErrorOps == {"getForecastErrorSeries", "getForecastErrorSeriesBackendFiltered"}

DayOf(ds) == DayNumber(ds.y, ds.m, ds.d)

\* the raw rows dated ds
RowsDated(ds) == { i \in 1 .. Len(trendData) : trendData[i].date = ds }

\* the output points dated ds
PointsDated(ds) == { i \in 1 .. Len(series) : series[i].date = ds }

\* the calendar days of the window of the reference date
WindowDays ==
    IF range = "Week"
    THEN { AddDays(date, k) : k \in (-6) .. 0 }
    ELSE { [y |-> date.y, m |-> date.m, d |-> n] : n \in 1 .. MonthLength(date.y, date.m) }

ErrorsHidden(ds) ==
    \A i \in 1 .. Len(series) : \A k \in DOMAIN series[i].vals :
        series[i].vals[k] # AbsError(ds, k)

\* C4: in the series of getTrendSeries every point dated after the reference
\* date is 0 under every key, and the series of getForecastErrorSeries shows
\* the error values of no row dated after the reference date.
C4_FutureDaysAreZero ==
    /\ op \in SeriesOps =>
          \A i \in 1 .. Len(series) :
              DayOf(series[i].date) > DayOf(date)
                  => \A k \in Keys : series[i].vals[k] = 0
    /\ op \in ErrorOps =>
          \A j \in 1 .. Len(trendData) :
              DayOf(trendData[j].date) > DayOf(date) => ErrorsHidden(trendData[j].date)

C6_WeekSeriesEndsAtReference ==
    (op = "getTrendSeries" /\ range = "Week" /\ Len(series) > 0)
        => /\ \A i \in 1 .. (Len(series) - 1) :
                 DayOf(series[i + 1].date) = DayOf(series[i].date) + 1
           /\ series[Len(series)].date = date

\* C13: a call of getTrendSeries or getForecastErrorSeries leaves its input
\* array as it was: same length, same order, same field values in every row.
C13_InputRowsUnchanged ==
    /\ op \in SeriesOps => rowsAfter = trendData
    /\ op \in ErrorOps => rowsAfter = forecastErrorRows(window, trendData)

\* a call of getForecastErrorSeries that returned a zeroed entry for a row
\* whose own values are not zero
C13_Witness ==
    /\ op = "getForecastErrorSeriesBackendFiltered"
    /\ \E i \in 1 .. Len(series) :
          /\ i \in 1 .. Len(rowsAfter)
          /\ series[i].day = rowsAfter[i].day
          /\ series[i].vals["t_plus_one"] = 0
          /\ rowsAfter[i].vals["t_plus_one"] # 0

-----------------------------------------------------------------------------
(* Summary aggregation of GET /home-summary.  forecasted and trend count    *)
(* hundredths: 4100 is 41.00.                                               *)

\* the danger cutoff of danger_count, 41
DangerThreshold == 4100

\* stations.map(s => Number(s.forecasted))
forecastsOf(st) == [i \in 1 .. Len(st) |-> st[i].forecasted]

\* Math.max(...xs) and Math.min(...xs) of a non-empty list
mathMax(xs) == CHOOSE v \in { xs[i] : i \in 1 .. Len(xs) } : \A i \in 1 .. Len(xs) : xs[i] <= v
mathMin(xs) == CHOOSE v \in { xs[i] : i \in 1 .. Len(xs) } : \A i \in 1 .. Len(xs) : v <= xs[i]

\* xs.reduce((a, b) => a + b, 0)
RECURSIVE sumOf(_)
sumOf(xs) == IF xs = <<>> THEN 0 ELSE Head(xs) + sumOf(Tail(xs))

\* Math.round((sum / n) * 100) / 100: to the nearest hundredth, halves up
roundedAvg(sum, n) == (2 * sum + n) \div (2 * n)

\* Number((sum / n).toFixed(2)): to the nearest hundredth, halves away from 0
fixedAvg(sum, n) ==
    IF sum >= 0 THEN (2 * sum + n) \div (2 * n)
    ELSE 0 - ((2 * (0 - sum) + n) \div (2 * n))

\* Math.round(x * 10) / 10: to the nearest tenth, halves up
roundedTenth(x) == ((x + 5) \div 10) * 10

\* a cutoff that leaves out a station at exactly 41
dangerCountAbove(st) == Cardinality({ i \in 1 .. Len(st) : st[i].forecasted > DangerThreshold })

\* stations.filter(s => Number(s.forecasted) >= 41).length
dangerCountOf(st) == Cardinality({ i \in 1 .. Len(st) : st[i].forecasted >= DangerThreshold })

\* a search that keeps the last station with the value instead of the first
findLastStation(st, v) ==
    LET hits == { i \in 1 .. Len(st) : st[i].forecasted = v }
    IN  IF hits = {} THEN 0 ELSE CHOOSE i \in hits : \A j \in hits : j <= i

\* stations.find(s => Number(s.forecasted) === v): the index of the first
\* such station, 0 for undefined
findStation(st, v) ==
    LET hits == { i \in 1 .. Len(st) : st[i].forecasted = v }
    IN  IF hits = {} THEN 0 ELSE CHOOSE i \in hits : \A j \in hits : i <= j

\* s?.station_name || ''
nameOrEmpty(st, i) == IF i = 0 THEN "" ELSE st[i].station_name

\* stations.reduce((prev, current) =>
\*     Number(current.trend) > Number(prev.trend) ? current : prev),
\* from station i on, prev being the station kept so far
RECURSIVE fastestFrom(_, _, _)
fastestFrom(st, i, prev) ==
    IF i > Len(st) THEN prev
    ELSE fastestFrom(st, i + 1, IF st[i].trend > st[prev].trend THEN i ELSE prev)

\* stations.reduce((prev, curr) => curr.forecasted > prev.forecasted ? curr : prev)
RECURSIVE maxFrom(_, _, _)
maxFrom(st, i, prev) ==
    IF i > Len(st) THEN prev
    ELSE maxFrom(st, i + 1, IF st[i].forecasted > st[prev].forecasted THEN i ELSE prev)

\* stations.reduce((prev, curr) => curr.forecasted < prev.forecasted ? curr : prev)
RECURSIVE minFrom(_, _, _)
minFrom(st, i, prev) ==
    IF i > Len(st) THEN prev
    ELSE minFrom(st, i + 1, IF st[i].forecasted < st[prev].forecasted THEN i ELSE prev)

\* an initial summary whose station names are not empty
PlaceholderSummary ==
    [max |-> 0, max_station |-> "N/A", min |-> 0, min_station |-> "N/A", avg |-> 0,
     danger_count |-> 0, fastest_increasing_station |-> "N/A",
     fastest_increasing_trend |-> 0]

\* the summary the handler starts from, kept when there is no station
ZeroSummary ==
    [max |-> 0, max_station |-> "", min |-> 0, min_station |-> "", avg |-> 0,
     danger_count |-> 0, fastest_increasing_station |-> "",
     fastest_increasing_trend |-> 0]

ZeroAverages == [avg_model_forecasted |-> 0, avg_pagasa_forecasted |-> 0]

\* no summary is computed: reduce of an empty array with no initial value
\* throws TypeError
TypeErrorThrown == [error |-> "TypeError"]

\* the summary of routes/homeData.ts over a non-empty list: find for the
\* extreme stations, the trend rounded to a tenth, the two averages passed
\* through
summaryOfStations(st, avgs) ==
    LET forecasts == forecastsOf(st)
        max       == mathMax(forecasts)
        min       == mathMin(forecasts)
        fastest   == fastestFrom(st, 2, 1)
    IN  [max |-> max,
         max_station |-> nameOrEmpty(st, findStation(st, max)),
         min |-> min,
         min_station |-> nameOrEmpty(st, findStation(st, min)),
         avg |-> roundedAvg(sumOf(forecasts), Len(forecasts)),
         danger_count |-> dangerCountOf(st),
         fastest_increasing_station |-> st[fastest].station_name,
         fastest_increasing_trend |-> roundedTenth(st[fastest].trend)]
        @@ [avg_model_forecasted |-> OrZero(avgs.avg_model_forecasted),
            avg_pagasa_forecasted |-> OrZero(avgs.avg_pagasa_forecasted)]

\* the summary computed without the stations.length > 0 test: stations.reduce
\* runs on the empty list too
summaryOfUnguarded(st, avgs) ==
    IF st = <<>> THEN TypeErrorThrown ELSE summaryOfStations(st, avgs)

\* the summary of the handler: the initial one unless there are stations
summaryOf(st, avgs) ==
    IF Len(st) > 0 THEN summaryOfStations(st, avgs)
    ELSE ZeroSummary @@ ZeroAverages

\* the summary of the draft with the trend query: reduce for the extreme
\* stations, every number through toFixed(2)
summaryOfReduceDraft(st) ==
    IF Len(st) > 0
    THEN LET forecasts == forecastsOf(st)
             fastest   == fastestFrom(st, 2, 1)
         IN  [max |-> mathMax(forecasts),
              max_station |-> nameOrEmpty(st, maxFrom(st, 2, 1)),
              min |-> mathMin(forecasts),
              min_station |-> nameOrEmpty(st, minFrom(st, 2, 1)),
              avg |-> fixedAvg(sumOf(forecasts), Len(forecasts)),
              danger_count |-> dangerCountOf(st),
              fastest_increasing_station |-> st[fastest].station_name,
              fastest_increasing_trend |-> st[fastest].trend]
    ELSE ZeroSummary

\* colorMap[name] of the four known levels, "" for undefined
colorMap(name) ==
    CASE name = "Caution" -> "#FFD700"
      [] name = "Extreme Caution" -> "#FFA500"
      [] name = "Danger" -> "#FF4500"
      [] name = "Extreme Danger" -> "#8B0000"
      [] OTHER -> ""

\* colorMap[row.name] || '#999999'
colorOf(name) == IF colorMap(name) = "" THEN "#999999" ELSE colorMap(name)

\* a rank that puts every other name before the known levels
sortKeyOthersFirst(name) ==
    CASE name = "Caution" -> 1
      [] name = "Extreme Caution" -> 2
      [] name = "Danger" -> 3
      [] name = "Extreme Danger" -> 4
      [] OTHER -> 0

\* sortOrder[name] || 999
sortKey(name) ==
    CASE name = "Caution" -> 1
      [] name = "Extreme Caution" -> 2
      [] name = "Danger" -> 3
      [] name = "Extreme Danger" -> 4
      [] OTHER -> 999

\* Array.prototype.sort with the comparator sortKey(a.name) - sortKey(b.name):
\* stable, so an entry goes after every entry whose key is not greater
RECURSIVE insertByKey(_, _)
insertByKey(sorted, e) ==
    IF sorted = <<>> THEN <<e>>
    ELSE IF sortKey(Head(sorted).name) <= sortKey(e.name)
         THEN <<Head(sorted)>> \o insertByKey(Tail(sorted), e)
         ELSE <<e>> \o sorted

RECURSIVE sortSynoptic(_)
sortSynoptic(entries) ==
    IF entries = <<>> THEN <<>>
    ELSE insertByKey(sortSynoptic(SubSeq(entries, 1, Len(entries) - 1)),
                     entries[Len(entries)])

\* the entry mapped from a row: name, value as a number, color
synopticEntry(row) ==
    [name |-> row.name, value |-> OrZero(row.value), color |-> colorOf(row.name)]

\* synopticResult.rows.map(...).sort(...) of GET /home-summary
synopticOf(rows) == sortSynoptic([i \in 1 .. Len(rows) |-> synopticEntry(rows[i])])

\* the CASE of the ORDER BY of GET /synoptic-classification: 1 to 4 for the
\* known levels, NULL for any other, and NULL sorts last in ascending order
caseRank(name) ==
    CASE name = "Caution" -> 1
      [] name = "Extreme Caution" -> 2
      [] name = "Danger" -> 3
      [] name = "Extreme Danger" -> 4
      [] OTHER -> 5

\* the orders in which the query may return the grouped rows: any order
\* that ascends in the CASE value (rows of equal value come in any order)
orderedByCase(rows) ==
    { [i \in 1 .. Len(rows) |-> rows[p[i]]] :
        p \in { q \in [1 .. Len(rows) -> 1 .. Len(rows)] :
                  /\ \A i, j \in 1 .. Len(rows) : i # j => q[i] # q[j]
                  /\ \A i \in 1 .. (Len(rows) - 1) :
                        caseRank(rows[q[i]].name) <= caseRank(rows[q[i + 1]].name) } }

\* result.rows.map(...) of GET /synoptic-classification
synopticData(rows) == [i \in 1 .. Len(rows) |-> synopticEntry(rows[i])]

\* the catch block: res.status(500).json({error}); else res.json({summary, ...})
Failed == [status |-> 500, error |-> "Failed to load home summary"]
Answered(summary, synoptic) == [status |-> 200, summary |-> summary, synoptic |-> synoptic]

\* what the handler answers: the catch block takes a failed query and an
\* exception of the summary computation alike
homeSummaryResponse(ok, summary, synoptic) ==
    IF ok /\ summary # TypeErrorThrown THEN Answered(summary, synoptic) ELSE Failed

\* the answers of GET /synoptic-classification: the list, or the catch block
SynopticFailed == [status |-> 500, error |-> "Failed to load synoptic classification"]
SynopticAnswered(data) == [status |-> 200, synoptic |-> data]

-----------------------------------------------------------------------------
(* Specification of GET /home-summary: one request over the rows the        *)
(* queries return.                                                          *)

StationNames == <<"Ambulong", "Baguio", "Calapan", "Daet", "Echague">>

\* forecasted: just below 41, 41, 45; trend: negative ones, a half, 1.1, 1.23
ForecastValues == {4099, 4100, 4500}
TrendValues == {-210, -25, 110, 123}

StationLists ==
    UNION { { [i \in 1 .. n |->
                 [station_name |-> StationNames[i], forecasted |-> f[i][1], trend |-> f[i][2]]] :
              f \in [1 .. n -> ForecastValues \X TrendValues] } : n \in 0 .. MaxStations }

AvgRows ==
    { [avg_model_forecasted |-> m, avg_pagasa_forecasted |-> g] :
        m \in {NullValue, <<3712>>}, g \in {NullValue, <<3650>>} }

InitSummary ==
    /\ tz = 0
    /\ op = "init"
    /\ date = NoDate
    /\ range = "Week"
    /\ window = NoWindow
    /\ trendData = <<>>
    /\ series = <<>>
    /\ stations \in StationLists
    /\ avgRow \in AvgRows
    /\ dbOk \in BOOLEAN
    /\ response = NoResponse
    /\ synopticRows = <<>>
    /\ rowsAfter = <<>>
    /\ db = NoTables
    /\ dateTail = <<>>
    /\ posts = <<>>
    /\ redis = {}
    /\ clock = 0
    /\ caches = NoCaches
    /\ lastSet = NoCaches
    /\ cacheCall = NoCall
    /\ requests = <<>>

HomeSummary ==
    /\ op = "init"
    /\ op' = "homeSummary"
    /\ response' = homeSummaryResponse(dbOk, summaryOf(stations, avgRow),
                                        synopticOf(synopticRows))
    /\ UNCHANGED <<tz, date, range, window, trendData, series, stations, avgRow, dbOk,
                 synopticRows,
                 rowsAfter,
                 db,
                 dateTail,
                 posts,
                 redis,
                 clock,
                 caches,
                 lastSet,
                 cacheCall,
                 requests>>

HomeSummaryReduceDraft ==
    /\ op = "init"
    /\ op' = "homeSummaryReduceDraft"
    /\ response' = homeSummaryResponse(dbOk, summaryOfReduceDraft(stations),
                                        synopticOf(synopticRows))
    /\ UNCHANGED <<tz, date, range, window, trendData, series, stations, avgRow, dbOk,
                 synopticRows,
                 rowsAfter,
                 db,
                 dateTail,
                 posts,
                 redis,
                 clock,
                 caches,
                 lastSet,
                 cacheCall,
                 requests>>

NextSummary ==
    \/ HomeSummary
    \/ HomeSummaryReduceDraft

SpecSummary == InitSummary /\ [][NextSummary]_vars

-----------------------------------------------------------------------------
(* Claims on the summary *)

SummaryOps == {"homeSummary", "homeSummaryReduceDraft"}

Summarized == op \in SummaryOps /\ dbOk

\* the first station, in input order, whose forecasted value no station
\* exceeds (Highest) or undercuts (Lowest)
FirstHighest(i) ==
    /\ \A j \in 1 .. Len(stations) : stations[j].forecasted <= stations[i].forecasted
    /\ \A j \in 1 .. (i - 1) : stations[j].forecasted < stations[i].forecasted
FirstLowest(i) ==
    /\ \A j \in 1 .. Len(stations) : stations[j].forecasted >= stations[i].forecasted
    /\ \A j \in 1 .. (i - 1) : stations[j].forecasted > stations[i].forecasted

\* C7: with no station the summary is the zero-valued object with empty
\* station names, and the handler answers normally.
C7_EmptyListGivesZeroSummary ==
    (Summarized /\ stations = <<>>)
        => /\ response.status = 200
           /\ response.summary.max = 0
           /\ response.summary.min = 0
           /\ response.summary.avg = 0
           /\ response.summary.danger_count = 0
           /\ response.summary.fastest_increasing_trend = 0
           /\ response.summary.max_station = ""
           /\ response.summary.min_station = ""
           /\ response.summary.fastest_increasing_station = ""

C7_Witness ==
    /\ op = "homeSummary"
    /\ stations = <<>>
    /\ response.status = 200

\* C8: max_station (min_station) names the first station in input order whose
\* forecasted value is the maximum (minimum); ties go to the earliest.
C8_ExtremeStationIsFirstOccurrence ==
    (Summarized /\ stations # <<>>)
        => /\ \E i \in 1 .. Len(stations) :
                 /\ FirstHighest(i)
                 /\ response.summary.max_station = stations[i].station_name
           /\ \E i \in 1 .. Len(stations) :
                 /\ FirstLowest(i)
                 /\ response.summary.min_station = stations[i].station_name

\* the second and third station tie for the maximum, the second is named
C8_Witness ==
    /\ op = "homeSummary"
    /\ dbOk
    /\ Len(stations) = 3
    /\ stations[1].forecasted < stations[2].forecasted
    /\ stations[2].forecasted = stations[3].forecasted
    /\ response.summary.max_station = stations[2].station_name

\* C9: danger_count is the number of stations whose forecasted value is at
\* least 41; exactly 41 counts, just below does not.
C9_DangerCountFromFortyOne ==
    Summarized =>
        response.summary.danger_count
            = Cardinality({ i \in 1 .. Len(stations) : stations[i].forecasted >= 41 * 100 })

\* one station at exactly 41 and one just below: one is counted
C9_Witness ==
    /\ op = "homeSummary"
    /\ dbOk
    /\ Len(stations) = 2
    /\ stations[1].forecasted = 41 * 100
    /\ stations[2].forecasted = 41 * 100 - 1
    /\ response.summary.danger_count = 1

\* C10: fastest_increasing_station is the first station, in input order,
\* whose trend no station exceeds, also when every trend is negative, and
\* fastest_increasing_trend is that trend rounded to one decimal place.
C10_FastestTrendRoundedToTenth ==
    (Summarized /\ stations # <<>>)
        => \E i \in 1 .. Len(stations) :
              /\ \A j \in 1 .. Len(stations) : stations[j].trend <= stations[i].trend
              /\ \A j \in 1 .. (i - 1) : stations[j].trend < stations[i].trend
              /\ response.summary.fastest_increasing_station = stations[i].station_name
              /\ response.summary.fastest_increasing_trend % 10 = 0
              /\ response.summary.fastest_increasing_trend - stations[i].trend \in (-5) .. 5

-----------------------------------------------------------------------------
(* Specification of the synoptic list: one request of GET /home-summary or  *)
(* GET /synoptic-classification over the grouped classification rows.       *)

SynopticNames ==
    {"Caution", "Extreme Caution", "Danger", "Extreme Danger", "Not Hazardous", "Unknown"}

\* COUNT(DISTINCT station) of a group
SynopticCounts == {<<1>>, <<12>>}

SynopticLists ==
    UNION { [1 .. n -> [name : SynopticNames, value : SynopticCounts]] : n \in 0 .. MaxSynoptic }

InitSynoptic ==
    /\ tz = 0
    /\ op = "init"
    /\ date = NoDate
    /\ range = "Week"
    /\ window = NoWindow
    /\ trendData = <<>>
    /\ series = <<>>
    /\ stations = <<[station_name |-> "Ambulong", forecasted |-> 4100, trend |-> 110]>>
    /\ avgRow = NoAvgRow
    /\ dbOk \in BOOLEAN
    /\ response = NoResponse
    /\ synopticRows \in SynopticLists
    /\ rowsAfter = <<>>
    /\ db = NoTables
    /\ dateTail = <<>>
    /\ posts = <<>>
    /\ redis = {}
    /\ clock = 0
    /\ caches = NoCaches
    /\ lastSet = NoCaches
    /\ cacheCall = NoCall
    /\ requests = <<>>

\* one statement of a query text that holds several: DELETE FROM a table,
\* or UPDATE model_heat_index SET tomorrow = 0
runStatement(tables, stmt) ==
    IF stmt.verb = "DELETE"
    THEN [tables EXCEPT ![stmt.table] = {}]
    ELSE [tables EXCEPT !.model_heat_index =
              { [row EXCEPT !.tomorrow = <<0>>] : row \in tables.model_heat_index }]

\* pool.query(text) with no parameter list sends the text by the simple query
\* protocol, which runs every statement of the text in turn
RECURSIVE runStatements(_, _)
runStatements(tables, stmts) ==
    IF stmts = <<>> THEN tables
    ELSE runStatements(runStatement(tables, Head(stmts)), Tail(stmts))

\* the date of the request is pasted into the text between quotes and the
\* text is sent with no parameter list: statements that follow a closing
\* quote run with the SELECT, the driver then hands back a list of results,
\* result.rows is undefined and .map throws into the catch block
SynopticClassification ==
    /\ op = "init"
    /\ op' = "synopticClassification"
    /\ IF ~dbOk
       THEN /\ response' = SynopticFailed
            /\ db' = db
       ELSE IF date # NoDate /\ dateTail # <<>>
       THEN /\ response' = SynopticFailed
            /\ db' = runStatements(db, dateTail)
       ELSE /\ \E rows \in orderedByCase(synopticRows) :
                   response' = SynopticAnswered(synopticData(rows))
            /\ db' = db
    /\ UNCHANGED <<tz, date, range, window, trendData, series, stations, avgRow, dbOk,
                   synopticRows, rowsAfter, dateTail, posts, redis,
                 clock,
                 caches,
                 lastSet,
                 cacheCall,
                 requests>>

NextSynoptic ==
    \/ HomeSummary
    \/ HomeSummaryReduceDraft
    \/ SynopticClassification

SpecSynoptic == InitSynoptic /\ [][NextSynoptic]_vars

-----------------------------------------------------------------------------
(* Claims on the synoptic list *)

SynopticOps == {"homeSummary", "homeSummaryReduceDraft", "synopticClassification"}

\* the place of a level in the fixed order, 5 for any other name
LevelRank(name) ==
    IF name = "Caution" THEN 1
    ELSE IF name = "Extreme Caution" THEN 2
    ELSE IF name = "Danger" THEN 3
    ELSE IF name = "Extreme Danger" THEN 4
    ELSE 5

LevelColor(name) ==
    IF name = "Caution" THEN "#FFD700"
    ELSE IF name = "Extreme Caution" THEN "#FFA500"
    ELSE IF name = "Danger" THEN "#FF4500"
    ELSE IF name = "Extreme Danger" THEN "#8B0000"
    ELSE "#999999"

-----------------------------------------------------------------------------
(* Specification of the calls with a missing or malformed date: the page    *)
(* holds such a selected date and renders its rows once, and the server     *)
(* resolves windows for any date string.                                    *)

MalformedDates == {NoDate, NotADate}

MalformedRows ==
    { <<>>,
      <<MkRow(FirstSeriesDate, "numbers")>>,
      <<MkRow(FirstSeriesDate, "null temp"), MkRow(AddDays(FirstSeriesDate, 1), "numbers")>> }

InitMalformed ==
    /\ tz \in TimeZones
    /\ op = "init"
    /\ date \in MalformedDates
    /\ range \in {"Week", "Month"}
    /\ window = NoWindow
    /\ trendData \in MalformedRows
    /\ series = <<>>
    /\ stations = <<>>
    /\ avgRow = NoAvgRow
    /\ dbOk = TRUE
    /\ response = NoResponse
    /\ synopticRows = <<>>
    /\ rowsAfter = <<>>
    /\ db = NoTables
    /\ dateTail = <<>>
    /\ posts = <<>>
    /\ redis = {}
    /\ clock = 0
    /\ caches = NoCaches
    /\ lastSet = NoCaches
    /\ cacheCall = NoCall
    /\ requests = <<>>

NextMalformed ==
    \/ CallGetDateRangeCondition
    \/ CallGetTrendSeries
    \/ CallGetTrendSeriesBackendFiltered

SpecMalformed == InitMalformed /\ [][NextMalformed]_vars

\* C12: a missing date, or a date string that names no calendar date, handed
\* to getDateRangeCondition or to getTrendSeries is rejected with an error: no
\* window and no series comes back.
C12_MalformedDateRejected ==
    /\ (op = "getDateRangeCondition" /\ date \in MalformedDates \cup {DayThirtyOfFebruary})
          => window = RangeErrorThrown
    /\ (op \in SeriesOps /\ date \in MalformedDates)
          => series = SeriesRangeError

-----------------------------------------------------------------------------
(* Specification of the calls over sparse data: a valid reference date,     *)
(* with an empty row list or rows whose values are null, missing or 0.      *)

\* row lists around the reference date: none, a row of nulls and zeros on
\* the date, such a row on the day after, two rows
SparseRows(sel) ==
    { <<>>,
      <<MkRow(sel, "null temp")>>,
      <<MkRow(sel, "zero temp")>>,
      <<MkRow(AddDays(sel, -1), "zero temp"), MkRow(AddDays(sel, 1), "null temp")>> }

\* station lists: none, a station whose forecasted and trend are 0 (null
\* reads as 0 under Number()), such a station after an ordinary one
SparseStations ==
    { <<>>,
      <<[station_name |-> "Ambulong", forecasted |-> 0, trend |-> 0]>>,
      <<[station_name |-> "Ambulong", forecasted |-> 4100, trend |-> 110],
        [station_name |-> "Baguio", forecasted |-> 0, trend |-> 0]>> }

InitSparse ==
    /\ tz \in TimeZones
    /\ op = "init"
    /\ date \in SeriesDates
    /\ range \in {"Week", "Month"}
    /\ window = NoWindow
    /\ trendData \in SparseRows(date)
    /\ series = <<>>
    /\ stations \in SparseStations
    /\ avgRow \in {NoAvgRow, [avg_model_forecasted |-> <<0>>, avg_pagasa_forecasted |-> NullValue]}
    /\ dbOk = TRUE
    /\ response = NoResponse
    /\ synopticRows = <<>>
    /\ rowsAfter = <<>>
    /\ db = NoTables
    /\ dateTail = <<>>
    /\ posts = <<>>
    /\ redis = {}
    /\ clock = 0
    /\ caches = NoCaches
    /\ lastSet = NoCaches
    /\ cacheCall = NoCall
    /\ requests = <<>>

NextSparse ==
    \/ CallGetTrendSeries
    \/ CallGetTrendSeriesBackendFiltered
    \/ CallGetForecastErrorSeries
    \/ CallGetForecastErrorSeriesBackendFiltered
    \/ HomeSummary
    \/ HomeSummaryReduceDraft

SpecSparse == InitSparse /\ [][NextSparse]_vars

\* C14: over an empty row list, or rows whose values are null, missing or 0,
\* and a valid reference date, the series functions return a series and the
\* summary computation returns a summary: nothing is thrown.
C14_SparseDataNeverThrows ==
    /\ op \in SeriesOps \cup ErrorOps => series # SeriesRangeError
    /\ (op \in SummaryOps /\ dbOk) => response.status = 200

\* the rolling draft of getForecastErrorSeries over no rows at all returned
\* seven entries, and the summary of no station was answered
C14_Witness ==
    \/ /\ op = "getForecastErrorSeries"
       /\ trendData = <<>>
       /\ Len(series) = 7
    \/ /\ op = "homeSummary"
       /\ stations = <<>>
       /\ response.status = 200

-----------------------------------------------------------------------------
(* The database behind the routes: what a statement does to the tables.     *)

\* the dates the forecasts are generated for and asked for
FirstOfMarch == [y |-> 2024, m |-> 3, d |-> 1]
SecondOfMarch == [y |-> 2024, m |-> 3, d |-> 2]

\* new Date().toISOString().split("T")[0] at the time of the request
Today == SecondOfMarch

\* a row of model_heat_index
forecastRow(id, station, d, t1, t2) ==
    [id |-> id, station |-> station, date |-> d, tomorrow |-> t1,
     day_after_tomorrow |-> t2,
     one_day_abs_error |-> NullValue, two_day_abs_error |-> NullValue]

\* the tables as the requests of the specifications below find them
SeedTables ==
    [stations |-> {1, 2},
     heat_index |-> {[station |-> 1, date |-> SecondOfMarch, actual |-> 4000]},
     model_heat_index |-> {forecastRow(1, 1, FirstOfMarch, <<3900>>, <<4200>>)},
     model_metrics |-> {[station |-> 1, rmse |-> 150]},
     classification |-> {[id |-> 1, level |-> "Caution", min_temp |-> <<2700>>,
                          max_temp |-> <<4000>>],
                         [id |-> 2, level |-> "Danger", min_temp |-> <<4000>>,
                          max_temp |-> <<5200>>]},
     nextId |-> 2, unique |-> FALSE]

\* PostgreSQL reads a date parameter: a text that names no calendar date
\* fails the statement
isCalendarDate(s) ==
    /\ s.m \in 1 .. 12
    /\ s.d \in 1 .. MonthLength(s.y, s.m)

\* the rows of a set as lists in ascending order of station (ORDER BY station)
rowsByStation(rows) ==
    { f \in [1 .. Cardinality(rows) -> rows] :
          /\ \A i, j \in 1 .. Cardinality(rows) : i # j => f[i] # f[j]
          /\ \A i \in 1 .. (Cardinality(rows) - 1) : f[i].station <= f[i + 1].station }

\* getForecasts(date): the rows of the date in the order of the query, a
\* null cell kept and any other read as the number it spells
getForecasts(tables, d) ==
    { [i \in 1 .. Len(rows) |->
          [station |-> rows[i].station,
           t1_forecast |-> rows[i].tomorrow,
           t2_forecast |-> rows[i].day_after_tomorrow]] :
      rows \in rowsByStation({ row \in tables.model_heat_index : row.date = d }) }

\* the answers of GET /generate-forecasts
ForecastsFailed == [status |-> 500, error |-> "Failed to generate forecasts"]
ForecastsAnswered(forecasts) == [status |-> 200, forecasts |-> forecasts]

\* seconds a cached answer of GET /generate-forecasts lives
ForecastsTtl == 60

-----------------------------------------------------------------------------
(* Specification of the GET routes: requests, one after the other, over the *)
(* seeded tables.                                                           *)

\* typeof date === 'string' ? date : today
selectedDateOf(d) == IF d = NoDate THEN Today ELSE d

\* GET /generate-forecasts?date=: the cached answer, or the rows of the date,
\* cached for 60 seconds; the date is a parameter of the query, and a text
\* that is no date fails the query
GetGenerateForecasts ==
    /\ op = "init"
    /\ op' = "getGenerateForecasts"
    /\ LET selectedDate == selectedDateOf(date)
           cached == { e \in redis : e.key = selectedDate }
       IN  IF ~dbOk
           THEN /\ response' = ForecastsFailed
                /\ redis' = redis
           ELSE IF cached # {}
           THEN /\ \E e \in cached : response' = ForecastsAnswered(e.value)
                /\ redis' = redis
           ELSE IF ~isCalendarDate(selectedDate) \/ (date # NoDate /\ dateTail # <<>>)
           THEN /\ response' = ForecastsFailed
                /\ redis' = redis
           ELSE \E forecasts \in getForecasts(db, selectedDate) :
                    /\ redis' = redis \cup {[key |-> selectedDate, value |-> forecasts,
                                             ttl |-> ForecastsTtl]}
                    /\ response' = ForecastsAnswered(forecasts)
    /\ UNCHANGED <<tz, date, range, window, trendData, series, stations, avgRow, dbOk,
                   synopticRows, rowsAfter, db, dateTail, posts,
                 clock,
                 caches,
                 lastSet,
                 cacheCall,
                 requests>>

\* Redis drops an entry once its seconds to live have passed
RedisExpire ==
    /\ \E e \in redis : redis' = redis \ {e}
    /\ UNCHANGED <<tz, op, date, range, window, trendData, series, stations, avgRow,
                   dbOk, response, synopticRows, rowsAfter, db, dateTail, posts,
                 clock,
                 caches,
                 lastSet,
                 cacheCall,
                 requests>>

\* what may follow a closing quote in ?date= : nothing, or statements
DateTails ==
    {<<>>,
     <<[verb |-> "UPDATE", table |-> "model_heat_index"]>>,
     <<[verb |-> "DELETE", table |-> "heat_index"]>>}

GetDates == {NoDate, FirstOfMarch, SecondOfMarch, NotADate}

GetSynopticLists ==
    {<<>>,
     <<[name |-> "Danger", value |-> <<12>>]>>,
     <<[name |-> "Unknown", value |-> <<1>>], [name |-> "Caution", value |-> <<1>>]>>}

InitGet ==
    /\ tz = 0
    /\ op = "init"
    /\ date \in GetDates
    /\ range = "Week"
    /\ window = NoWindow
    /\ trendData = <<>>
    /\ series = <<>>
    /\ stations \in SparseStations
    /\ avgRow = NoAvgRow
    /\ dbOk \in BOOLEAN
    /\ response = NoResponse
    /\ synopticRows \in GetSynopticLists
    /\ rowsAfter = <<>>
    /\ db = SeedTables
    /\ dateTail \in DateTails
    /\ posts = <<>>
    /\ redis = {}
    /\ clock = 0
    /\ caches = NoCaches
    /\ lastSet = NoCaches
    /\ cacheCall = NoCall
    /\ requests = <<>>

\* the client sends the next GET request
NextGetRequest ==
    /\ op # "init"
    /\ op' = "init"
    /\ date' \in GetDates
    /\ dbOk' \in BOOLEAN
    /\ dateTail' \in DateTails
    /\ response' = NoResponse
    /\ UNCHANGED <<tz, range, window, trendData, series, stations, avgRow,
                   synopticRows, rowsAfter, db, posts, redis,
                 clock,
                 caches,
                 lastSet,
                 cacheCall,
                 requests>>

NextGet ==
    \/ HomeSummary
    \/ HomeSummaryReduceDraft
    \/ SynopticClassification
    \/ GetGenerateForecasts
    \/ RedisExpire
    \/ NextGetRequest

SpecGet == InitGet /\ [][NextGet]_vars

-----------------------------------------------------------------------------
(* Claims on the GET routes *)

GetOps == {"homeSummary", "homeSummaryReduceDraft", "synopticClassification",
           "getGenerateForecasts"}

\* C15: no GET request handler changes a row of stations, heat_index,
\* model_heat_index, model_metrics or classification, so that the tables
\* after any number of GET requests are the tables before the first.
C15_GetLeavesTablesUnchanged ==
    [][op' \in GetOps => db' = db]_vars

-----------------------------------------------------------------------------
(* POST /generate-forecasts: the texts of the request and of the subprocess *)

\* the date of a request body as the list of its characters; a body with no
\* date and a body with the empty string are both falsy to `!date`
NoBodyDate == <<>>

Digits == <<"0", "1", "2", "3", "4", "5", "6", "7", "8", "9">>

isDigit(c) == \E n \in 1 .. 10 : Digits[n] = c
\* the value of a digit; any other character counts for nothing
digitValue(c) == IF isDigit(c) THEN (CHOOSE n \in 1 .. 10 : Digits[n] = c) - 1 ELSE 0

twoDigits(n) == <<Digits[((n \div 10) % 10) + 1], Digits[(n % 10) + 1]>>

\* the text YYYY-MM-DD of a date
dateText(s) ==
    twoDigits(s.y \div 100) \o twoDigits(s.y % 100) \o <<"-">> \o twoDigits(s.m)
        \o <<"-">> \o twoDigits(s.d)

\* a test that looks at the length of the text alone
dateLengthTest(text) == Len(text) = 10

\* /^\d{4}-\d{2}-\d{2}$/.test(date)
dateRegexTest(text) ==
    /\ Len(text) = 10
    /\ \A i \in {1, 2, 3, 4, 6, 7, 9, 10} : isDigit(text[i])
    /\ text[5] = "-"
    /\ text[8] = "-"

\* the year, month and day a text of that shape spells, as new Date(date)
\* and the date parameter of a query read them
readDate(text) ==
    [y |-> 1000 * digitValue(text[1]) + 100 * digitValue(text[2])
             + 10 * digitValue(text[3]) + digitValue(text[4]),
     m |-> 10 * digitValue(text[6]) + digitValue(text[7]),
     d |-> 10 * digitValue(text[9]) + digitValue(text[10])]

\* one line of the subprocess output
TextLine == [json |-> FALSE, array |-> FALSE, items |-> <<>>, abs_errors |-> FALSE]
ObjectLine == [json |-> TRUE, array |-> FALSE, items |-> <<>>, abs_errors |-> FALSE]
AbsErrorsLine == [json |-> TRUE, array |-> FALSE, items |-> <<>>, abs_errors |-> TRUE]
ArrayLine(items) == [json |-> TRUE, array |-> TRUE, items |-> items, abs_errors |-> FALSE]

\* the messages of the errors thrown on the way
InvalidForecastData == "Invalid forecast data from model"
NoAbsErrorsData == "No abs_errors data from model"

\* the line loop: forecasts = obj for every line that parses as an array
RECURSIVE parseLinesFrom(_, _, _)
parseLinesFrom(lines, i, forecasts) ==
    IF i > Len(lines) THEN forecasts
    ELSE parseLinesFrom(lines, i + 1,
             IF lines[i].json /\ lines[i].array THEN lines[i].items ELSE forecasts)

\* absErrors = obj.abs_errors of a line that is an object holding the key
hasAbsErrors(lines) ==
    \E i \in 1 .. Len(lines) : lines[i].json /\ ~lines[i].array /\ lines[i].abs_errors

\* the handlers of the route the repository holds, named by what sets them
\* apart: JSON.parse of the whole output and no error columns
\* (generateForecasts.ts:14), the line loop with the error columns written
\* by the INSERT and UPDATE (part_005:14), the line loop with the error
\* columns set by UPDATE ... FROM ... JOIN (generateForecasts.ts:195), and the
\* line loop with the error columns set through a WITH clause (part_005:211)
Drafts == {"wholeOutput", "absErrorColumns", "absErrorJoin", "absErrorCte"}

\* what the handler makes of the output: an error message, or the forecasts
\* and whether for ... of can walk them
parseOutput(draft, lines) ==
    IF draft = "wholeOutput"
    THEN IF Len(lines) = 1 /\ lines[1].json
         THEN [error |-> "", iterable |-> lines[1].array, forecasts |-> lines[1].items]
         ELSE [error |-> InvalidForecastData, iterable |-> FALSE, forecasts |-> <<>>]
    ELSE LET forecasts == parseLinesFrom(lines, 1, <<>>)
         IN  IF forecasts = <<>>
             THEN [error |-> InvalidForecastData, iterable |-> FALSE, forecasts |-> <<>>]
             ELSE IF draft = "absErrorColumns" /\ ~hasAbsErrors(lines)
             THEN [error |-> NoAbsErrorsData, iterable |-> FALSE, forecasts |-> <<>>]
             ELSE [error |-> "", iterable |-> TRUE, forecasts |-> forecasts]

\* the answers of the route
BadRequest(message) == [status |-> 400, error |-> message]
PostFailed(details) ==
    [status |-> 500, error |-> "Failed to generate forecasts", details |-> details]
PostSucceeded(insertCount, updateCount) ==
    [status |-> 200, success |-> TRUE, stations_processed |-> insertCount + updateCount,
     inserted |-> insertCount, updated |-> updateCount]

-----------------------------------------------------------------------------
(* POST /generate-forecasts: the statements on model_heat_index *)

\* SELECT id FROM model_heat_index WHERE station = $1 AND date = $2
existingRecord(tables, station, d) ==
    { row \in tables.model_heat_index : row.station = station /\ row.date = d }

\* INSERT INTO model_heat_index (station, date, tomorrow, day_after_tomorrow)
insertForecast(tables, station, d, t1, t2) ==
    [tables EXCEPT
        !.model_heat_index = @ \cup {forecastRow(tables.nextId, station, d, t1, t2)},
        !.nextId = @ + 1]

\* UPDATE model_heat_index SET tomorrow = $1, day_after_tomorrow = $2
\* WHERE station = $3 AND date = $4
updateForecast(tables, station, d, t1, t2) ==
    [tables EXCEPT !.model_heat_index =
        { IF row.station = station /\ row.date = d
          THEN [row EXCEPT !.tomorrow = t1, !.day_after_tomorrow = t2]
          ELSE row : row \in @ }]

\* a write that inserts whatever the SELECT found
insertWhateverFound(tables, found, station, d, t1, t2) ==
    insertForecast(tables, station, d, t1, t2)

\* the branch on existingRecord.rows.length > 0
writeForecast(tables, found, station, d, t1, t2) ==
    IF found THEN updateForecast(tables, station, d, t1, t2)
    ELSE insertForecast(tables, station, d, t1, t2)

\* ABS(actual - forecast), NULL when the forecast is NULL
absCell(actual, cell) ==
    IF cell = NullValue THEN NullValue
    ELSE <<IF actual >= cell[1] THEN actual - cell[1] ELSE cell[1] - actual>>

\* the values the statement may give a row m: one for each pair of the
\* row's actual value and the forecast made `lag` days before for its date
absErrorValues(tables, m, lag, forecast) ==
    { absCell(a.actual, y[forecast]) :
        a \in { h \in tables.heat_index : h.station = m.station /\ h.date = m.date },
        y \in { x \in tables.model_heat_index :
                    x.station = m.station /\ x.date = AddDays(m.date, -lag) } }

\* UPDATE model_heat_index m SET <column> = ABS(p.actual - p.forecasted_for_today)
\* FROM prev_forecast p WHERE m.id = p.model_id: every row with a pair gets
\* the value of one of its pairs, every other row stays
absErrorUpdates(tables, lag, forecast, column) ==
    LET rows == tables.model_heat_index
        values(m) == IF absErrorValues(tables, m, lag, forecast) = {}
                     THEN {m[column]}
                     ELSE absErrorValues(tables, m, lag, forecast)
    IN  { [tables EXCEPT !.model_heat_index = { [m EXCEPT ![column] = f[m]] : m \in rows }] :
            f \in { g \in [rows -> UNION { values(m) : m \in rows }] :
                        \A m \in rows : g[m] \in values(m) } }

-----------------------------------------------------------------------------
(* POST /generate-forecasts: the handler, one action for each await *)

\* the variables the route does not touch
otherVars == <<tz, op, date, range, window, trendData, series, stations, avgRow, dbOk,
               response, synopticRows, rowsAfter, dateTail, redis,
               clock, caches, lastSet, cacheCall, requests>>

\* return res.status(...).json(...), or the catch block
answered(p, resp) == [p EXCEPT !.pc = "done", !.response = resp]

\* the two UPDATE statements of the error columns follow the loop in the
\* drafts that have them
afterLoop(draft) ==
    IF draft \in {"absErrorJoin", "absErrorCte"} THEN "absError1" ELSE "verify"

\* lines 14-36: the date is checked and the stations are asked for
PostStart(r) ==
    LET p == [posts[r] EXCEPT !.tablesAtStart = db]
    IN  /\ p.pc = "new"
        /\ posts' = [posts EXCEPT ![r] =
               IF p.date = NoBodyDate
               THEN answered(p, BadRequest("Date is required in request body"))
               ELSE IF ~dateRegexTest(p.date)
               THEN answered(p, BadRequest("Date must be in YYYY-MM-DD format"))
               ELSE [p EXCEPT !.pc = "stations", !.queries = @ + 1]]
        /\ UNCHANGED db
        /\ UNCHANGED otherVars

\* the stations arrive and the Python script is started
PostStations(r) ==
    LET p == posts[r]
    IN  /\ p.pc = "stations"
        /\ posts' = [posts EXCEPT ![r] = [p EXCEPT !.pc = "model", !.spawned = TRUE]]
        /\ UNCHANGED db
        /\ UNCHANGED otherVars

\* the script has printed: its output is parsed, the first and second drafts
\* print the two days after the date (toISOString throws on a date that is
\* none), and SELECT 1 is sent
PostModelOutput(r) ==
    LET p == posts[r]
        parsed == parseOutput(p.draft, p.stdout)
    IN  /\ p.pc = "model"
        /\ posts' = [posts EXCEPT ![r] =
               IF parsed.error # ""
               THEN answered(p, PostFailed(parsed.error))
               ELSE IF p.draft \in {"wholeOutput", "absErrorColumns"}
                       /\ isInvalidDate(readDate(p.date))
               THEN answered(p, PostFailed("Invalid time value"))
               ELSE [p EXCEPT !.pc = "test", !.forecasts = parsed.forecasts,
                              !.iterable = parsed.iterable, !.queries = @ + 1]]
        /\ UNCHANGED db
        /\ UNCHANGED otherVars

\* SELECT 1 has answered: the loop begins with the first forecast, or is
\* over at once
PostTested(r) ==
    LET p == posts[r]
    IN  /\ p.pc = "test"
        /\ posts' = [posts EXCEPT ![r] =
               IF ~p.iterable
               THEN answered(p, PostFailed("forecasts is not iterable"))
               ELSE IF p.forecasts = <<>>
               THEN [p EXCEPT !.pc = afterLoop(p.draft), !.queries = @ + 1]
               ELSE [p EXCEPT !.pc = "select", !.i = 1, !.queries = @ + 1]]
        /\ UNCHANGED db
        /\ UNCHANGED otherVars

\* the SELECT of the existing record runs and the UPDATE or INSERT is sent
PostSelected(r) ==
    LET p == posts[r]
        d == readDate(p.date)
    IN  /\ p.pc = "select"
        /\ posts' = [posts EXCEPT ![r] =
               IF ~isCalendarDate(d)
               THEN answered(p, PostFailed("date/time field value out of range"))
               ELSE [p EXCEPT !.pc = "write", !.queries = @ + 1,
                        !.found = existingRecord(db, p.forecasts[p.i].station, d) # {}]]
        /\ UNCHANGED db
        /\ UNCHANGED otherVars

\* the UPDATE or INSERT runs, the counter goes up and the loop goes on. The
\* statements of the second draft name the column 1day_abs_error unquoted,
\* which PostgreSQL does not parse; a schema with the unique key refuses the
\* INSERT of a key that is there
PostWritten(r) ==
    LET p == posts[r]
        d == readDate(p.date)
        f == p.forecasts[p.i]
        last == p.i = Len(p.forecasts)
    IN  /\ p.pc = "write"
        /\ IF p.draft = "absErrorColumns"
           THEN /\ posts' = [posts EXCEPT ![r] = answered(p, PostFailed("syntax error"))]
                /\ db' = db
           ELSE IF ~p.found /\ db.unique /\ existingRecord(db, f.station, d) # {}
           THEN /\ posts' = [posts EXCEPT ![r] =
                                answered(p, PostFailed("duplicate key value"))]
                /\ db' = db
           ELSE /\ db' = writeForecast(db, p.found, f.station, d, f.t1, f.t2)
                /\ posts' = [posts EXCEPT ![r] =
                       [p EXCEPT !.pc = IF last THEN afterLoop(p.draft) ELSE "select",
                                 !.i = @ + 1,
                                 !.queries = @ + 1,
                                 !.insertCount = IF p.found THEN @ ELSE @ + 1,
                                 !.updateCount = IF p.found THEN @ + 1 ELSE @]]
        /\ UNCHANGED otherVars

\* the UPDATE of the one-day error runs. The statement of
\* generateForecasts.ts:309 names the updated table inside the JOIN of its
\* FROM clause, which PostgreSQL refuses
PostAbsError1(r) ==
    LET p == posts[r]
    IN  /\ p.pc = "absError1"
        /\ IF p.draft = "absErrorJoin"
           THEN /\ posts' = [posts EXCEPT ![r] =
                       answered(p, PostFailed("invalid reference to FROM-clause entry"))]
                /\ db' = db
           ELSE /\ db' \in absErrorUpdates(db, 1, "tomorrow", "one_day_abs_error")
                /\ posts' = [posts EXCEPT ![r] =
                       [p EXCEPT !.pc = "absError2", !.queries = @ + 1]]
        /\ UNCHANGED otherVars

\* the UPDATE of the two-day error runs
PostAbsError2(r) ==
    LET p == posts[r]
    IN  /\ p.pc = "absError2"
        /\ db' \in absErrorUpdates(db, 2, "day_after_tomorrow", "two_day_abs_error")
        /\ posts' = [posts EXCEPT ![r] = [p EXCEPT !.pc = "verify", !.queries = @ + 1]]
        /\ UNCHANGED otherVars

\* the count has answered: res.json({success: true, ...})
PostVerified(r) ==
    LET p == posts[r]
    IN  /\ p.pc = "verify"
        /\ posts' = [posts EXCEPT ![r] =
               answered(p, PostSucceeded(p.insertCount, p.updateCount))]
        /\ UNCHANGED db
        /\ UNCHANGED otherVars

\* a query or the subprocess fails (connection lost, script exits non-zero):
\* the await throws into the catch block
PostFails(r) ==
    LET p == posts[r]
    IN  /\ p.pc \in {"stations", "model", "test", "select", "write",
                     "absError1", "absError2", "verify"}
        /\ posts' = [posts EXCEPT ![r] = answered(p, PostFailed("connection terminated"))]
        /\ UNCHANGED db
        /\ UNCHANGED otherVars

\* a request as it arrives
newPost(draft, d, stdout) ==
    [pc |-> "new", draft |-> draft, date |-> d, stdout |-> stdout,
     forecasts |-> <<>>, iterable |-> FALSE, i |-> 0, found |-> FALSE,
     insertCount |-> 0, updateCount |-> 0, queries |-> 0, spawned |-> FALSE,
     tablesAtStart |-> NoTables, response |-> NoResponse]

-----------------------------------------------------------------------------
(* Specification of POST /generate-forecasts, one request after the other:  *)
(* the second request is sent when the first has been answered.             *)

\* the first request is sent before the second, and no request is sent
\* while another is being served
PostStartAlone(r) ==
    /\ \A q \in DOMAIN posts : q # r => posts[q].pc \in {"new", "done"}
    /\ \A q \in 1 .. (r - 1) : posts[q].pc = "done"
    /\ PostStart(r)

\* bodies: no date, "2024-03-01", "2024-03-02", "2024-13-45", "01/03/2024",
\* "2024-3-1"
BodyDates ==
    {NoBodyDate, dateText(FirstOfMarch), dateText(SecondOfMarch), dateText(NotADate),
     <<"0", "1", "/", "0", "3", "/", "2", "0", "2", "4">>,
     <<"2", "0", "2", "4", "-", "3", "-", "1">>}

\* outputs of the model: every station once
ForecastsA == <<[station |-> 1, t1 |-> <<3900>>, t2 |-> <<4200>>]>>
ForecastsB ==
    <<[station |-> 2, t1 |-> <<4100>>, t2 |-> <<3800>>],
      [station |-> 1, t1 |-> <<4100>>, t2 |-> <<3800>>]>>

\* what the script prints, line by line
Stdouts ==
    {<<>>,
     <<TextLine>>,
     <<ObjectLine>>,
     <<ArrayLine(<<>>)>>,
     <<ArrayLine(ForecastsA)>>,
     <<ArrayLine(ForecastsB)>>,
     <<TextLine, ArrayLine(ForecastsA)>>,
     <<ArrayLine(ForecastsA), TextLine>>,
     <<ArrayLine(ForecastsA), ObjectLine>>,
     <<ArrayLine(ForecastsA), ArrayLine(ForecastsB)>>,
     <<ArrayLine(ForecastsA), ArrayLine(<<>>)>>,
     <<ArrayLine(ForecastsB), AbsErrorsLine>>}

\* model_heat_index as the first request finds it: empty, the forecasts made
\* on 1 March for station 1, those of 2 March for both stations, and two
\* rows of one station and date
SeedForecasts ==
    {{},
     {forecastRow(1, 1, FirstOfMarch, <<3900>>, <<4200>>)},
     {forecastRow(1, 1, SecondOfMarch, <<4000>>, <<4000>>),
      forecastRow(2, 2, SecondOfMarch, <<4000>>, <<4000>>)},
     {forecastRow(1, 1, FirstOfMarch, <<3900>>, <<4200>>),
      forecastRow(2, 1, FirstOfMarch, <<4000>>, <<4000>>)}}

\* at most one row for a station and date
oneRowPerKey(rows) ==
    \A x, y \in rows : (x.station = y.station /\ x.date = y.date) => x = y

PostTables ==
    { t \in { [SeedTables EXCEPT !.model_heat_index = rows, !.nextId = 3, !.unique = u] :
                  rows \in SeedForecasts, u \in BOOLEAN } :
          t.unique => oneRowPerKey(t.model_heat_index) }

InitPost ==
    /\ tz = 0
    /\ op = "init"
    /\ date = NoDate
    /\ range = "Week"
    /\ window = NoWindow
    /\ trendData = <<>>
    /\ series = <<>>
    /\ stations = <<>>
    /\ avgRow = NoAvgRow
    /\ dbOk = TRUE
    /\ response = NoResponse
    /\ synopticRows = <<>>
    /\ rowsAfter = <<>>
    /\ db \in PostTables
    /\ dateTail = <<>>
    /\ redis = {}
    /\ \E draft \in Drafts, d1 \in BodyDates, o1 \in Stdouts :
         \E d2 \in {d1, dateText(SecondOfMarch)}, o2 \in {o1, <<ArrayLine(ForecastsB)>>} :
             posts = <<newPost(draft, d1, o1), newPost(draft, d2, o2)>>
    /\ clock = 0
    /\ caches = NoCaches
    /\ lastSet = NoCaches
    /\ cacheCall = NoCall
    /\ requests = <<>>

NextPost ==
    \/ \E r \in DOMAIN posts : PostStartAlone(r)
    \/ \E r \in DOMAIN posts : PostStations(r)
    \/ \E r \in DOMAIN posts : PostModelOutput(r)
    \/ \E r \in DOMAIN posts : PostTested(r)
    \/ \E r \in DOMAIN posts : PostSelected(r)
    \/ \E r \in DOMAIN posts : PostWritten(r)
    \/ \E r \in DOMAIN posts : PostAbsError1(r)
    \/ \E r \in DOMAIN posts : PostAbsError2(r)
    \/ \E r \in DOMAIN posts : PostVerified(r)
    \/ \E r \in DOMAIN posts : PostFails(r)

SpecPost == InitPost /\ [][NextPost]_vars

-----------------------------------------------------------------------------
(* Specification of concurrent POST /generate-forecasts requests for one    *)
(* date: every await of a request lets the other run.                       *)

InitConcurrent ==
    /\ tz = 0
    /\ op = "init"
    /\ date = NoDate
    /\ range = "Week"
    /\ window = NoWindow
    /\ trendData = <<>>
    /\ series = <<>>
    /\ stations = <<>>
    /\ avgRow = NoAvgRow
    /\ dbOk = TRUE
    /\ response = NoResponse
    /\ synopticRows = <<>>
    /\ rowsAfter = <<>>
    /\ db \in { t \in PostTables : oneRowPerKey(t.model_heat_index) }
    /\ dateTail = <<>>
    /\ redis = {}
    /\ \E draft \in Drafts :
         \E o1, o2 \in {<<ArrayLine(ForecastsA)>>, <<ArrayLine(ForecastsB)>>} :
             posts = <<newPost(draft, dateText(FirstOfMarch), o1),
                       newPost(draft, dateText(FirstOfMarch), o2)>>
    /\ clock = 0
    /\ caches = NoCaches
    /\ lastSet = NoCaches
    /\ cacheCall = NoCall
    /\ requests = <<>>

NextConcurrent ==
    \/ \E r \in DOMAIN posts : PostStart(r)
    \/ \E r \in DOMAIN posts : PostStations(r)
    \/ \E r \in DOMAIN posts : PostModelOutput(r)
    \/ \E r \in DOMAIN posts : PostTested(r)
    \/ \E r \in DOMAIN posts : PostSelected(r)
    \/ \E r \in DOMAIN posts : PostWritten(r)
    \/ \E r \in DOMAIN posts : PostAbsError1(r)
    \/ \E r \in DOMAIN posts : PostAbsError2(r)
    \/ \E r \in DOMAIN posts : PostVerified(r)
    \/ \E r \in DOMAIN posts : PostFails(r)

SpecConcurrent == InitConcurrent /\ [][NextConcurrent]_vars

-----------------------------------------------------------------------------
(* Claims on POST /generate-forecasts *)

\* request r has been answered and no later request has been sent
JustAnswered(r) ==
    /\ posts[r].pc = "done"
    /\ \A q \in DOMAIN posts : q > r => posts[q].pc = "new"

\* the rows of a table for a date
rowsOfDate(rows, d) == { row \in rows : row.date = d }

\* the stations of a list of forecasts that have a row for the date in a table
stationsWithRow(forecasts, rows, d) ==
    { forecasts[i].station : i \in { j \in 1 .. Len(forecasts) :
          \E row \in rows : row.station = forecasts[j].station /\ row.date = d } }

stationsOf(forecasts) == { forecasts[i].station : i \in 1 .. Len(forecasts) }

\* C16: after a request for date d that answers success, sent to a table
\* with at most one row per station for d, the table holds exactly one row of
\* d for every station of the model output, carrying the model's two values,
\* inserted counts the stations that had no row of d, updated those that had
\* one, and the two add up to the number of forecasts.
C16_SuccessStoresOneRowPerStation ==
    \A r \in DOMAIN posts :
        LET p == posts[r]
            d == readDate(p.date)
            before == p.tablesAtStart.model_heat_index
            out == p.forecasts
        IN  (/\ JustAnswered(r)
             /\ p.response.status = 200
             /\ oneRowPerKey(rowsOfDate(before, d)))
            => /\ \A i \in 1 .. Len(out) :
                     \E row \in db.model_heat_index :
                         /\ row.station = out[i].station
                         /\ row.date = d
                         /\ row.tomorrow = out[i].t1
                         /\ row.day_after_tomorrow = out[i].t2
                         /\ \A other \in db.model_heat_index :
                                (other.station = row.station /\ other.date = d)
                                    => other = row
               /\ p.response.inserted
                      = Cardinality(stationsOf(out) \ stationsWithRow(out, before, d))
               /\ p.response.updated = Cardinality(stationsWithRow(out, before, d))
               /\ p.response.inserted + p.response.updated = Len(out)

\* the first request, for 1 March with two forecasts, finds the row of
\* station 1 and none of station 2: one row updated, one inserted
C16_Witness ==
    /\ JustAnswered(1)
    /\ posts[1].response.status = 200
    /\ posts[1].draft = "absErrorCte"
    /\ posts[1].date = dateText(FirstOfMarch)
    /\ posts[1].forecasts = ForecastsB
    /\ posts[1].response.inserted = 1
    /\ posts[1].response.updated = 1
    /\ Cardinality(rowsOfDate(db.model_heat_index, FirstOfMarch)) = 2

\* the shape of a text: every digit replaced by "d"
ShapeOf(text) == [i \in 1 .. Len(text) |-> IF isDigit(text[i]) THEN "d" ELSE text[i]]
YearMonthDayShape == <<"d", "d", "d", "d", "-", "d", "d", "-", "d", "d">>

\* C17: a request whose body has no date, or a date not of the shape
\* YYYY-MM-DD, is answered 400, and until then no query was sent, no
\* subprocess started and no table changed.
C17_BadDateAnswers400 ==
    \A r \in DOMAIN posts :
        LET p == posts[r]
        IN  (/\ JustAnswered(r)
             /\ (p.date = NoBodyDate \/ ShapeOf(p.date) # YearMonthDayShape))
            => /\ p.response.status = 400
               /\ p.queries = 0
               /\ ~p.spawned
               /\ db = p.tablesAtStart

\* the body {"date": "01/03/2024"} is answered 400 with the message of the
\* format check
C17_Witness ==
    /\ JustAnswered(1)
    /\ posts[1].date = <<"0", "1", "/", "0", "3", "/", "2", "0", "2", "4">>
    /\ posts[1].response = BadRequest("Date must be in YYYY-MM-DD format")
    /\ posts[1].queries = 0

\* the items of the last line of an output that is a JSON array, none when
\* no line is one
LastArrayOf(lines) ==
    LET arrays == { i \in 1 .. Len(lines) : lines[i].json /\ lines[i].array }
    IN  IF arrays = {} THEN <<>>
        ELSE lines[CHOOSE i \in arrays : \A j \in arrays : j <= i].items

\* the request read the output of the script: the script was started and
\* neither it nor a query failed
ReadOutput(p) ==
    /\ p.spawned
    /\ p.response.status # 200 => p.response.details # "connection terminated"

\* C18: the forecasts a request stores are those of the last line of the
\* output that is a JSON array, whatever other lines surround it; when no
\* line gives a non-empty array the request is answered 500 with "Invalid
\* forecast data from model" and has inserted and updated no row.
C18_LastArrayLineIsStored ==
    \A r \in DOMAIN posts :
        LET p == posts[r]
            last == LastArrayOf(p.stdout)
        IN  (JustAnswered(r) /\ ReadOutput(p))
            => /\ (p.insertCount + p.updateCount > 0) => p.forecasts = last
               /\ (last # <<>> /\ p.response.status = 500)
                      => p.response.details # InvalidForecastData
               /\ (\A i \in 1 .. Len(p.stdout) : p.stdout[i].items = <<>>)
                      => /\ p.response = PostFailed(InvalidForecastData)
                         /\ p.insertCount + p.updateCount = 0
                         /\ db.model_heat_index = p.tablesAtStart.model_heat_index

\* C20: the second of two requests in sequence for one date and one model
\* output leaves the (station, date, tomorrow, day_after_tomorrow) rows the
\* first left, and reports inserted = 0 and updated = the number of forecasts.
stored(rows) ==
    { [station |-> row.station, date |-> row.date, tomorrow |-> row.tomorrow,
       day_after_tomorrow |-> row.day_after_tomorrow] : row \in rows }

\* an output the draft takes: forecasts on the last array line, and for the
\* draft that asks for them the errors on a line of their own
TakenOutput(draft, lines) ==
    /\ LastArrayOf(lines) # <<>>
    /\ draft = "wholeOutput" => Len(lines) = 1
    /\ draft = "absErrorColumns" => hasAbsErrors(lines)

C20_SecondRunUpdatesOnly ==
    (/\ Len(posts) = 2
     /\ posts[2].pc = "done"
     /\ posts[1].date = posts[2].date
     /\ posts[1].stdout = posts[2].stdout
     /\ ShapeOf(posts[1].date) = YearMonthDayShape
     /\ isCalendarDate(readDate(posts[1].date))
     /\ TakenOutput(posts[1].draft, posts[1].stdout)
     /\ ReadOutput(posts[1])
     /\ ReadOutput(posts[2]))
    => /\ stored(db.model_heat_index) = stored(posts[2].tablesAtStart.model_heat_index)
       /\ posts[2].response.status = 200
       /\ posts[2].response.inserted = 0
       /\ posts[2].response.updated = Len(posts[2].forecasts)

\* C19: whatever the interleaving of the requests for one date,
\* model_heat_index holds at most one row per station and date.
C19_NoDuplicateRows ==
    oneRowPerKey(db.model_heat_index)

\* C21: a request answered 500 has inserted and updated no row: the table is
\* the one the request found.
C21_FailureWritesNothing ==
    \A r \in DOMAIN posts :
        LET p == posts[r]
        IN  (JustAnswered(r) /\ p.response.status = 500)
            => /\ p.insertCount + p.updateCount = 0
               /\ stored(db.model_heat_index) = stored(p.tablesAtStart.model_heat_index)

-----------------------------------------------------------------------------
(* Claims on the forecast-error series of rows identified by a day number *)

\* the rows the forecast-error query returned to the page: the station's
\* rows inside the date condition
ReturnedRows == { j \in 1 .. Len(trendData) : inDateCondition(window, trendData[j].date) }

\* the series has an entry for the row dated ds that carries the row's day
\* number and its two error values
ErrorsShown(ds) ==
    \E i \in 1 .. Len(series) :
        /\ series[i].day = ds.d
        /\ series[i].vals = errorRowOf(ds).vals

\* C27: of the rows the query returned, every row dated on or before the
\* selected date is in the series with its t_plus_one and t_plus_two
\* unchanged, and the error values of every row dated after it are not in
\* the series, also when the Week window starts in the month before.
C27_OnlyFutureDaysZeroed ==
    op \in ErrorOps =>
        \A j \in ReturnedRows :
            IF DayOf(trendData[j].date) <= DayOf(date)
            THEN ErrorsShown(trendData[j].date)
            ELSE ErrorsHidden(trendData[j].date)

\* March 1 of the year of the selected date
MarchFirstOfSelected == [y |-> date.y, m |-> 3, d |-> 1]

\* the series has an entry for the error row dated ds, zeroed or not
ErrorDayListed(ds) == \E i \in 1 .. Len(series) : series[i].day = ds.d

\* C28: with the selected date in March the series has no entry dated March
\* 1 of the selected year and has an entry for every other input row; with
\* the selected date in another month it has an entry for every input row.
C28_OnlyMarchFirstRemoved ==
    /\ op \in SeriesOps =>
          /\ date.m = 3 => PointsDated(MarchFirstOfSelected) = {}
          /\ \A j \in 1 .. Len(trendData) :
                (date.m = 3 /\ trendData[j].date = MarchFirstOfSelected)
                    \/ PointsDated(trendData[j].date) # {}
    /\ op \in ErrorOps =>
          \A j \in ReturnedRows :
              IF date.m = 3 /\ trendData[j].date = MarchFirstOfSelected
              THEN ~ErrorDayListed(trendData[j].date)
              ELSE ErrorDayListed(trendData[j].date)

-----------------------------------------------------------------------------
(* The in-memory query cache: class QueryCache, the shared instance         *)
(* queryCache, cacheMiddleware and invalidateCache.  Cached data is held as *)
(* its JSON text, a key as its sequence of characters, Date.now() is clock. *)

\* the JSON text of null: what get returns for a missing or expired entry
NullData == "null"

\* export const queryCache = new QueryCache(300), in seconds
SharedTTLSeconds == 300

\* the name of the shared instance
SharedCache == "queryCache"

\* new QueryCache(defaultTTLSeconds): an empty Map, the TTL in milliseconds
newQueryCache(defaultTTLSeconds) ==
    [defaultTTL |-> defaultTTLSeconds * 1000, cache |-> <<>>]

\* Map.set(key, entry) and Map.delete(key) on a Map held as a function
mapSet(m, key, entry) == [k \in DOMAIN m \cup {key} |-> IF k = key THEN entry ELSE m[k]]
mapDelete(m, key) == [k \in DOMAIN m \ {key} |-> m[k]]

\* an entry that expires as soon as its TTL has elapsed
isExpiredAtTTL(c, entry, now) == now - entry.timestamp >= c.defaultTTL

\* const isExpired = Date.now() - entry.timestamp > this.defaultTTL
isExpired(c, entry, now) == now - entry.timestamp > c.defaultTTL

\* get(key): the instance as the call leaves it and what the call returns
get(c, key, now) ==
    IF key \notin DOMAIN c.cache THEN [after |-> c, result |-> NullData]
    ELSE IF isExpired(c, c.cache[key], now)
    THEN [after |-> [c EXCEPT !.cache = mapDelete(@, key)], result |-> NullData]
    ELSE [after |-> c, result |-> c.cache[key].data]

\* set(key, data)
set(c, key, data, now) ==
    [c EXCEPT !.cache = mapSet(@, key, [data |-> data, timestamp |-> now])]

\* delete(key)
delete(c, key) == [c EXCEPT !.cache = mapDelete(@, key)]

\* clear()
clear(c) == [c EXCEPT !.cache = <<>>]

\* getStats(): the keys are read as a set
getStats(c) == [size |-> Cardinality(DOMAIN c.cache), keys |-> DOMAIN c.cache]

\* JSON.stringify(req.query) of a query object given as its name/value pairs
\* in order, names and values being strings of one character
Quote == "\""
RECURSIVE members(_, _)
members(query, i) ==
    IF i > Len(query) THEN <<>>
    ELSE (IF i > 1 THEN <<",">> ELSE <<>>)
            \o <<Quote, query[i].name, Quote, ":", Quote, query[i].value, Quote>>
            \o members(query, i + 1)
stringify(query) == <<"{">> \o members(query, 1) \o <<"}">>

\* `${cacheKey}:${JSON.stringify(req.query)}`
fullKey(cacheKey, query) == cacheKey \o <<":">> \o stringify(query)

\* key.includes(pattern)
includes(key, pattern) ==
    \E i \in 0 .. (Len(key) - Len(pattern)) :
        SubSeq(key, i + 1, i + Len(pattern)) = pattern

-----------------------------------------------------------------------------
(* Specification of one QueryCache instance under direct calls *)

\* the longest time the server is followed, in seconds
MaxClockSeconds == 400

\* the instances a call sequence is run on: the shared one, and one made
\* with a TTL of 60 seconds
PrivateTTLSeconds == 60
Instances ==
    { [name |-> SharedCache, ttlSeconds |-> SharedTTLSeconds],
      [name |-> "private", ttlSeconds |-> PrivateTTLSeconds] }

\* the query objects of the requests
Queries == { <<>>, <<[name |-> "d", value |-> "1"]>> }

\* keys and data of the direct calls
CallKeys == { fullKey(<<"s">>, query) : query \in Queries }
CallData == {"[1]", "[2]"}

\* time passes by the TTL of an instance
Tick ==
    /\ \E step \in { caches[n].defaultTTL : n \in DOMAIN caches } :
          /\ clock + step <= MaxClockSeconds * 1000
          /\ clock' = clock + step
    /\ UNCHANGED <<tz, op, date, range, window, trendData, series, stations, avgRow, dbOk,
                   response, synopticRows, rowsAfter, db, dateTail, posts, redis,
                   caches, lastSet, cacheCall, requests>>

\* time passes by a single millisecond, once
TickMillisecond ==
    /\ clock % 1000 = 0
    /\ clock + 1 <= MaxClockSeconds * 1000
    /\ clock' = clock + 1
    /\ UNCHANGED <<tz, op, date, range, window, trendData, series, stations, avgRow, dbOk,
                   response, synopticRows, rowsAfter, db, dateTail, posts, redis,
                   caches, lastSet, cacheCall, requests>>

cacheOther == <<tz, op, date, range, window, trendData, series, stations, avgRow, dbOk,
                response, synopticRows, rowsAfter, db, dateTail, posts, redis,
                clock, requests>>

CallGet(n, key) ==
    LET r == get(caches[n], key, clock)
    IN  /\ caches' = [caches EXCEPT ![n] = r.after]
        /\ cacheCall' = [method |-> "get", cache |-> n, key |-> key, result |-> r.result,
                         at |-> clock]
        /\ UNCHANGED <<cacheOther, lastSet>>

CallSet(n, key, data) ==
    /\ caches' = [caches EXCEPT ![n] = set(@, key, data, clock)]
    /\ lastSet' = [lastSet EXCEPT ![n] = mapSet(@, key, [data |-> data, timestamp |-> clock])]
    /\ cacheCall' = [method |-> "set", cache |-> n, key |-> key, result |-> NullData,
                     at |-> clock]
    /\ UNCHANGED cacheOther

CallDelete(n, key) ==
    /\ caches' = [caches EXCEPT ![n] = delete(@, key)]
    /\ lastSet' = [lastSet EXCEPT ![n] = mapDelete(@, key)]
    /\ cacheCall' = [method |-> "delete", cache |-> n, key |-> key, result |-> NullData,
                     at |-> clock]
    /\ UNCHANGED cacheOther

CallClear(n) ==
    /\ caches' = [caches EXCEPT ![n] = clear(@)]
    /\ lastSet' = [lastSet EXCEPT ![n] = <<>>]
    /\ cacheCall' = [method |-> "clear", cache |-> n, key |-> <<>>, result |-> NullData,
                     at |-> clock]
    /\ UNCHANGED cacheOther

InitCache ==
    /\ tz = 0
    /\ op = "init"
    /\ date = NoDate
    /\ range = "Week"
    /\ window = NoWindow
    /\ trendData = <<>>
    /\ series = <<>>
    /\ stations = <<>>
    /\ avgRow = NoAvgRow
    /\ dbOk = TRUE
    /\ response = NoResponse
    /\ synopticRows = <<>>
    /\ rowsAfter = <<>>
    /\ db = NoTables
    /\ dateTail = <<>>
    /\ posts = <<>>
    /\ redis = {}
    /\ clock = 0
    /\ \E i \in Instances : caches = [n \in {i.name} |-> newQueryCache(i.ttlSeconds)]
    /\ lastSet = [n \in DOMAIN caches |-> <<>>]
    /\ cacheCall = NoCall
    /\ requests = <<>>

NextCache ==
    \/ Tick
    \/ TickMillisecond
    \/ \E n \in DOMAIN caches, key \in CallKeys : CallGet(n, key)
    \/ \E n \in DOMAIN caches, key \in CallKeys, data \in CallData : CallSet(n, key, data)
    \/ \E n \in DOMAIN caches, key \in CallKeys : CallDelete(n, key)
    \/ \E n \in DOMAIN caches : CallClear(n)

SpecCache == InitCache /\ [][NextCache]_vars

\* the entry a get(key) on instance n has to answer from: the most recent
\* set(key, v) with no delete(key) or clear() since, when at most the TTL has
\* elapsed since it
Retrievable(n, key) ==
    /\ key \in DOMAIN lastSet[n]
    /\ clock - lastSet[n][key].timestamp <= caches[n].defaultTTL

\* C22: get(k) returns the data of the most recent set(k, v) exactly when no
\* delete(k) or clear() happened since and at most TTL milliseconds have
\* elapsed since that set, and null otherwise; after a get that found an
\* expired entry the key is not among the keys of getStats().
C22_GetReturnsLiveEntry ==
    (cacheCall.method = "get" /\ cacheCall.at = clock) =>
        LET n == cacheCall.cache
            k == cacheCall.key
        IN  /\ cacheCall.result = IF Retrievable(n, k) THEN lastSet[n][k].data ELSE NullData
            /\ (k \in DOMAIN lastSet[n] /\ ~Retrievable(n, k))
                  => k \notin getStats(caches[n]).keys

\* a get exactly one TTL after the set returned the data, and in another run
\* a get one millisecond later returned null and removed the entry
C22_Witness ==
    /\ cacheCall.method = "get"
    /\ cacheCall.at = clock
    /\ cacheCall.key \in DOMAIN lastSet[cacheCall.cache]
    /\ clock - lastSet[cacheCall.cache][cacheCall.key].timestamp
          = caches[cacheCall.cache].defaultTTL
    /\ cacheCall.result = lastSet[cacheCall.cache][cacheCall.key].data

\* a get found an entry older than the TTL: null, and the entry is gone
C22_ExpiredWitness ==
    /\ cacheCall.method = "get"
    /\ cacheCall.at = clock
    /\ cacheCall.key \in DOMAIN lastSet[cacheCall.cache]
    /\ ~Retrievable(cacheCall.cache, cacheCall.key)
    /\ cacheCall.result = NullData
    /\ getStats(caches[cacheCall.cache]).size = 0

-----------------------------------------------------------------------------
(* Specification of cacheMiddleware and invalidateCache: requests go through *)
(* routes wrapped by the middleware while time passes and the cache is       *)
(* invalidated                                                              *)

\* no ttlSeconds argument
NoTTL == <<>>

\* the wrapped routes: router.get(path, cacheMiddleware(cacheKey, ttlSeconds), handler)
WrappedRoutes ==
    { [path |-> "/s", cacheKey |-> <<"s">>, ttlSeconds |-> NoTTL],
      [path |-> "/t", cacheKey |-> <<"t">>, ttlSeconds |-> <<PrivateTTLSeconds>>] }

\* ttlSeconds ? ... : ... , the truth value of an optional number
hasTTL(ttlSeconds) == ttlSeconds # NoTTL /\ ttlSeconds[1] # 0

\* const cache = ttlSeconds ? new QueryCache(ttlSeconds) : queryCache, by
\* the name of the instance: a route with a TTL holds an instance of its own
cacheOf(route) == IF hasTTL(route.ttlSeconds) THEN route.path ELSE SharedCache

\* the instances after every route is wrapped
wrappedCaches ==
    [n \in {SharedCache} \cup { cacheOf(route) : route \in WrappedRoutes } |->
        IF n = SharedCache THEN newQueryCache(SharedTTLSeconds)
        ELSE newQueryCache((CHOOSE route \in WrappedRoutes : cacheOf(route) = n).ttlSeconds[1])]

\* if (cachedData): the truth value of data held as JSON text
FalsyData == {"null", "0", "false", "\"\""}
truthy(data) == data \notin FalsyData

\* what a handler sends: res.json(rows), res.json(null) when there is no row
\* (part_003:514-518), res.status(500).json({ error }) from its catch block
ErrorBody == "{\"error\":\"Failed to load home summary\"}"
HandlerOutcomes ==
    { [status |-> 200, body |-> b] : b \in {"[1]", "[2]", NullData} }
        \cup { [status |-> 500, body |-> ErrorBody] }

\* the patterns handed to invalidateCache; the empty one stands for no
\* argument and for the empty string
NoPattern == <<>>
Patterns == { NoPattern, <<"1">> }

newRequest(method, route, query) ==
    [method |-> method, route |-> route, query |-> query, pc |-> "new",
     wrapped |-> FALSE, hit |-> FALSE, nextCalls |-> 0, status |-> 0, body |-> NullData,
     afterClear |-> FALSE]

requestKey(q) == fullKey(q.route.cacheKey, q.query)

middlewareOther == <<tz, op, date, range, window, trendData, series, stations, avgRow, dbOk,
                     response, synopticRows, rowsAfter, db, dateTail, posts, redis, clock>>

\* the pending requests through the route of request r no longer are the
\* first GET through it since the cache was cleared
afterGet(reqs, r) ==
    [x \in DOMAIN reqs |->
        IF x # r /\ reqs[r].method = "GET" /\ reqs[x].route = reqs[r].route
        THEN [reqs[x] EXCEPT !.afterClear = FALSE] ELSE reqs[x]]

\* the function cacheMiddleware returns, run on request r
Middleware(r) ==
    LET q   == requests[r]
        n   == cacheOf(q.route)
        g   == get(caches[n], requestKey(q), clock)
    IN  /\ q.pc = "new"
        /\ \A x \in 1 .. (r - 1) : requests[x].pc # "new"
        /\ IF q.method # "GET"
           THEN /\ requests' = [requests EXCEPT ![r].pc = "handler", ![r].nextCalls = @ + 1]
                /\ UNCHANGED caches
           ELSE /\ caches' = [caches EXCEPT ![n] = g.after]
                /\ IF truthy(g.result)
                   THEN requests' = [afterGet(requests, r) EXCEPT
                                        ![r].pc = "done", ![r].hit = TRUE,
                                        ![r].status = 200, ![r].body = g.result]
                   ELSE requests' = [afterGet(requests, r) EXCEPT
                                        ![r].pc = "handler", ![r].wrapped = TRUE,
                                        ![r].nextCalls = @ + 1]
        /\ UNCHANGED <<middlewareOther, lastSet, cacheCall>>

\* the handler of request r answers: res.status(s).json(body), through the
\* res.json the middleware put in place on a miss
Handler(r) ==
    LET q == requests[r]
        n == cacheOf(q.route)
    IN  /\ q.pc = "handler"
        /\ \E out \in HandlerOutcomes :
              /\ requests' = [requests EXCEPT ![r].pc = "done", ![r].status = out.status,
                                              ![r].body = out.body]
              /\ IF q.wrapped
                 THEN /\ caches' = [caches EXCEPT ![n] = set(@, requestKey(q), out.body, clock)]
                      /\ lastSet' = [lastSet EXCEPT ![n] =
                                        mapSet(@, requestKey(q),
                                               [data |-> out.body, timestamp |-> clock])]
                 ELSE UNCHANGED <<caches, lastSet>>
        /\ UNCHANGED <<middlewareOther, cacheCall>>

\* queryCache after invalidateCache(pattern)
invalidated(c, pattern) ==
    IF pattern = NoPattern THEN clear(c)
    ELSE [c EXCEPT !.cache = [k \in { x \in getStats(c).keys : ~includes(x, pattern) } |-> @[k]]]

\* invalidateCache(pattern), called by some code that changed the data
InvalidateCache(pattern) ==
    /\ caches' = [caches EXCEPT ![SharedCache] = invalidated(@, pattern)]
    /\ lastSet' = [lastSet EXCEPT ![SharedCache] = invalidated([cache |-> @], pattern).cache]
    /\ requests' = [x \in DOMAIN requests |->
                      IF pattern = NoPattern /\ requests[x].pc = "new"
                      THEN [requests[x] EXCEPT !.afterClear = TRUE] ELSE requests[x]]
    /\ UNCHANGED <<middlewareOther, cacheCall>>

InitMiddleware ==
    /\ tz = 0
    /\ op = "init"
    /\ date = NoDate
    /\ range = "Week"
    /\ window = NoWindow
    /\ trendData = <<>>
    /\ series = <<>>
    /\ stations = <<>>
    /\ avgRow = NoAvgRow
    /\ dbOk = TRUE
    /\ response = NoResponse
    /\ synopticRows = <<>>
    /\ rowsAfter = <<>>
    /\ db = NoTables
    /\ dateTail = <<>>
    /\ posts = <<>>
    /\ redis = {}
    /\ clock = 0
    /\ caches = wrappedCaches
    /\ lastSet = [n \in DOMAIN caches |-> <<>>]
    /\ cacheCall = NoCall
    /\ requests \in [1 .. 2 ->
                        { newRequest(m, route, query) :
                            m \in {"GET", "POST"}, route \in WrappedRoutes, query \in Queries }]

NextMiddleware ==
    \/ Tick
    \/ \E r \in DOMAIN requests : Middleware(r)
    \/ \E r \in DOMAIN requests : Handler(r)
    \/ \E pattern \in Patterns : InvalidateCache(pattern)

SpecMiddleware == InitMiddleware /\ [][NextMiddleware]_vars

-----------------------------------------------------------------------------
(* Claims on cacheMiddleware and invalidateCache *)

\* request r goes through the middleware in this step
Enters(r) == requests[r].pc = "new" /\ requests'[r].pc # "new"

\* the handler of request r answers in this step
Answers(r) == requests[r].pc = "handler" /\ requests'[r].pc = "done"

\* the instance of the route of request q holds an unexpired entry under
\* the key of q
UnexpiredEntry(q) ==
    LET c == caches[cacheOf(q.route)]
    IN  /\ requestKey(q) \in DOMAIN c.cache
        /\ ~isExpired(c, c.cache[requestKey(q)], clock)

\* C23, one step: a request of another method calls next and the instances
\* stay as they are, also when its handler answers; a GET with an unexpired
\* entry under its key is answered with the entry's data and next is not
\* called; a GET without one calls next once and the body its handler sends
\* is then the data under its key; requests to a route with different query
\* objects have different keys.
C23_MiddlewareStep ==
    /\ \A r \in DOMAIN requests :
          LET q == requests[r]
              n == cacheOf(q.route)
              k == requestKey(q)
          IN  /\ Enters(r) =>
                    IF q.method # "GET"
                    THEN caches' = caches /\ requests'[r].nextCalls = 1
                    ELSE IF UnexpiredEntry(q)
                    THEN /\ requests'[r].pc = "done"
                         /\ requests'[r].body = caches[n].cache[k].data
                         /\ requests'[r].nextCalls = 0
                    ELSE /\ requests'[r].pc = "handler"
                         /\ requests'[r].nextCalls = 1
              /\ Answers(r) =>
                    IF q.method # "GET" THEN caches' = caches
                    ELSE /\ requests'[r].nextCalls = 1
                         /\ k \in DOMAIN caches'[n].cache
                         /\ caches'[n].cache[k].data = requests'[r].body
    /\ \A route \in WrappedRoutes, q1 \in Queries, q2 \in Queries :
          q1 # q2 => fullKey(route.cacheKey, q1) # fullKey(route.cacheKey, q2)

C23_OnlyGetIsCached == [][C23_MiddlewareStep]_vars

\* C24, one step: the first GET through a route after invalidateCache()
\* misses and calls next; invalidateCache(p) removes exactly the entries
\* whose key contains p and leaves every other entry as it was.
C24_InvalidateStep ==
    /\ \A r \in DOMAIN requests :
          (Enters(r) /\ requests[r].method = "GET" /\ requests[r].afterClear)
              => ~requests'[r].hit /\ requests'[r].nextCalls = 1
    /\ \A pattern \in Patterns \ {NoPattern} :
          InvalidateCache(pattern) =>
              \A n \in DOMAIN caches : \A k \in DOMAIN caches[n].cache :
                  IF includes(k, pattern)
                  THEN k \notin DOMAIN caches'[n].cache
                  ELSE /\ k \in DOMAIN caches'[n].cache
                       /\ caches'[n].cache[k] = caches[n].cache[k]

C24_InvalidateReachesEveryRoute == [][C24_InvalidateStep]_vars

\* C25: no request is answered from the cache with the body a handler sent
\* with status 500.
C25_ErrorBodyNeverServed ==
    \A r \in DOMAIN requests : requests[r].hit => requests[r].body # ErrorBody

-----------------------------------------------------------------------------
(* The Redis cache of GET /generate-forecasts and GET /stations-map, request *)
(* by request and await by await, while time passes and rows are written     *)

\* `generate-forecasts:${selectedDate}` and `stations-map:${selectedDate}`
redisKey(route, selectedDate) == [prefix |-> route, date |-> selectedDate]

\* seconds a cached answer of GET /stations-map lives
StationsMapTtl == 60

ttlOf(route) == IF route = "stations-map" THEN StationsMapTtl ELSE ForecastsTtl

\* an entry that lives twice its seconds
isLiveTwice(e, now) == now <= e.storedAt + 2 * e.ttl * 1000

\* Redis keeps a key set by SETEX until the clock is past the time it was
\* set plus its seconds to live
isLive(e, now) == now <= e.storedAt + e.ttl * 1000

\* redis.get(cacheKey): the live entries under the key, none or one
redisGet(entries, key, now) == { e \in entries : e.key = key /\ isLive(e, now) }

\* redis.setEx(cacheKey, seconds, value): the key is replaced; the entry
\* remembers when its value was read from the tables
redisSetEx(entries, key, seconds, value, now, queriedAt) ==
    { e \in entries : e.key # key }
        \cup {[key |-> key, value |-> value, ttl |-> seconds, storedAt |-> now,
               queriedAt |-> queriedAt]}

\* the rows of the query of GET /stations-map: every station, LEFT JOIN its
\* model_heat_index rows of the date, LEFT JOIN the classification rows
\* whose band holds tomorrow
stationsMapJoin(tables, d) ==
    LET mapForecastsOf(s) == { m \in tables.model_heat_index : m.station = s /\ m.date = d }
        mapBandsOf(m) == { c \in tables.classification :
                          /\ m.tomorrow # NullValue
                          /\ c.max_temp # NullValue
                          /\ m.tomorrow[1] < c.max_temp[1]
                          /\ (c.min_temp = NullValue \/ m.tomorrow[1] >= c.min_temp[1]) }
    IN  { [station |-> s, row |-> 0, heat_index |-> NullValue, risk_level |-> NullValue] :
            s \in { x \in tables.stations : mapForecastsOf(x) = {} } }
        \cup { [station |-> m.station, row |-> m.id, heat_index |-> m.tomorrow,
                risk_level |-> NullValue] :
                 m \in { x \in tables.model_heat_index :
                           x.station \in tables.stations /\ x.date = d /\ mapBandsOf(x) = {} } }
        \cup UNION { { [station |-> m.station, row |-> m.id, heat_index |-> m.tomorrow,
                        risk_level |-> <<c.level>>] : c \in mapBandsOf(m) } :
                      m \in { x \in tables.model_heat_index :
                                x.station \in tables.stations /\ x.date = d } }

\* result.rows.map(...): heat_index as a number or null, risk_level or 'N/A'
getStationsMap(tables, d) ==
    { [i \in 1 .. Len(rows) |->
          [id |-> rows[i].station,
           heat_index |-> rows[i].heat_index,
           risk_level |-> IF rows[i].risk_level = NullValue THEN "N/A"
                          ELSE rows[i].risk_level[1]]] :
      rows \in rowsByStation(stationsMapJoin(tables, d)) }

\* what the handler of the route computes from the tables
queryResults(route, tables, d) ==
    IF route = "stations-map" THEN getStationsMap(tables, d) ELSE getForecasts(tables, d)

RedisRoutes == {"generate-forecasts", "stations-map"}

newGet(route, d) ==
    [route |-> route, date |-> d, pc |-> "new", result |-> <<>>, queriedAt |-> 0,
     storedAt |-> 0, answeredAt |-> 0, cached |-> FALSE, status |-> 0, body |-> <<>>]

redisOther == <<tz, op, date, range, window, trendData, series, stations, avgRow, dbOk,
                response, synopticRows, rowsAfter, dateTail, posts, caches, lastSet,
                cacheCall>>

\* const cached = await redis.get(cacheKey); if (cached) return res.json(JSON.parse(cached))
GetCached(r) ==
    LET q    == requests[r]
        hits == redisGet(redis, redisKey(q.route, selectedDateOf(q.date)), clock)
    IN  /\ q.pc = "new"
        /\ IF hits = {}
           THEN requests' = [requests EXCEPT ![r].pc = "query"]
           ELSE \E e \in hits :
                   requests' = [requests EXCEPT
                                   ![r].pc = "done", ![r].cached = TRUE, ![r].status = 200,
                                   ![r].body = e.value, ![r].queriedAt = e.queriedAt,
                                   ![r].storedAt = e.storedAt, ![r].answeredAt = clock]
        /\ UNCHANGED <<redisOther, db, redis, clock>>

\* await getForecasts(selectedDate), await pool.query(query, [selectedDate])
GetQueried(r) ==
    LET q == requests[r]
    IN  /\ q.pc = "query"
        /\ \E result \in queryResults(q.route, db, selectedDateOf(q.date)) :
              requests' = [requests EXCEPT ![r].pc = "store", ![r].result = result,
                                           ![r].queriedAt = clock]
        /\ UNCHANGED <<redisOther, db, redis, clock>>

\* await redis.setEx(cacheKey, 60, JSON.stringify(result)); res.json(result)
GetStored(r) ==
    LET q == requests[r]
    IN  /\ q.pc = "store"
        /\ redis' = redisSetEx(redis, redisKey(q.route, selectedDateOf(q.date)),
                               ttlOf(q.route), q.result, clock, q.queriedAt)
        /\ requests' = [requests EXCEPT ![r].pc = "done", ![r].status = 200,
                                        ![r].body = q.result, ![r].storedAt = clock,
                                        ![r].answeredAt = clock]
        /\ UNCHANGED <<redisOther, db, clock>>

\* an await of the handler rejects (Redis or the database is unreachable):
\* the catch block answers 500
GetFails(r) ==
    /\ requests[r].pc \in {"new", "query", "store"}
    /\ requests' = [requests EXCEPT ![r].pc = "done", ![r].status = 500,
                                    ![r].answeredAt = clock]
    /\ UNCHANGED <<redisOther, db, redis, clock>>

\* the forecasts a POST /generate-forecasts may write for a station
WrittenForecasts == { [t1 |-> <<4100>>, t2 |-> <<4300>>] }

\* one round of the loop of a POST /generate-forecasts for March 1: the row
\* of a station is updated or inserted
PostChangesRow ==
    /\ \E station \in db.stations, f \in WrittenForecasts :
          db' = writeForecast(db, existingRecord(db, station, FirstOfMarch) # {},
                              station, FirstOfMarch, f.t1, f.t2)
    /\ UNCHANGED <<redisOther, redis, clock, requests>>

\* time passes by the seconds a cached answer lives
TickRedisTtl ==
    /\ clock + ForecastsTtl * 1000 <= 2 * ForecastsTtl * 1000 + 1
    /\ clock' = clock + ForecastsTtl * 1000
    /\ UNCHANGED <<redisOther, db, redis, requests>>

InitRedis ==
    /\ tz = 0
    /\ op = "init"
    /\ date = NoDate
    /\ range = "Week"
    /\ window = NoWindow
    /\ trendData = <<>>
    /\ series = <<>>
    /\ stations = <<>>
    /\ avgRow = NoAvgRow
    /\ dbOk = TRUE
    /\ response = NoResponse
    /\ synopticRows = <<>>
    /\ rowsAfter = <<>>
    /\ db = SeedTables
    /\ dateTail = <<>>
    /\ posts = <<>>
    /\ redis = {}
    /\ clock = 0
    /\ caches = NoCaches
    /\ lastSet = NoCaches
    /\ cacheCall = NoCall
    /\ requests \in [1 .. 2 -> { newGet(route, d) :
                                    route \in RedisRoutes, d \in {FirstOfMarch, NoDate} }]

NextRedis ==
    \/ \E r \in DOMAIN requests : GetCached(r)
    \/ \E r \in DOMAIN requests : GetQueried(r)
    \/ \E r \in DOMAIN requests : GetStored(r)
    \/ \E r \in DOMAIN requests : GetFails(r)
    \/ PostChangesRow
    \/ TickRedisTtl
    \/ TickMillisecond

SpecRedis == InitRedis /\ [][NextRedis]_vars

\* C26 as stated: a 200 answer of either route is the result of the tables
\* as they are when it is sent, or was computed from the tables at most 60
\* seconds before it is sent.
C26_AtMostSixtySecondsOld ==
    \A r \in DOMAIN requests :
        LET q == requests[r]
        IN  (q.pc = "done" /\ q.status = 200 /\ q.answeredAt = clock)
                => \/ q.body \in queryResults(q.route, db, selectedDateOf(q.date))
                   \/ q.answeredAt - q.queriedAt <= ttlOf(q.route) * 1000

\* C26 as amended: a 200 answer of either route is what the request itself
\* read from the tables, or a value that was stored in Redis at most 60
\* seconds before the answer is sent and had been read from the tables
\* before it was stored; its age is 60 seconds plus the time the storing
\* request took between its query and its setEx, at most.
C26_AtMostSixtySecondsStored ==
    \A r \in DOMAIN requests :
        LET q == requests[r]
        IN  (q.pc = "done" /\ q.status = 200)
                => /\ q.queriedAt <= q.storedAt
                   /\ q.storedAt <= q.answeredAt
                   /\ q.cached => q.answeredAt - q.storedAt <= ttlOf(q.route) * 1000
                   /\ ~q.cached => q.body = q.result

\* a cached answer sent 60 seconds after it was stored, while the tables
\* hold other rows for the date
C26_Witness ==
    \E r \in DOMAIN requests :
        LET q == requests[r]
        IN  /\ q.pc = "done"
            /\ q.cached
            /\ q.answeredAt = clock
            /\ q.answeredAt - q.storedAt = ttlOf(q.route) * 1000
            /\ q.body \notin queryResults(q.route, db, selectedDateOf(q.date))

====
